---- MODULE Spec2Model ----
(***************************************************************************)
(* A model of the grief-support backend: the AI chat service's per-user    *)
(* conversation history (services/chat_service.py), the peer-support       *)
(* WebSocket room broadcaster (routers/support.py) and the journal, mood,  *)
(* reminder and chat-history CRUD handlers (routers/*.py, services/*.py).  *)
(*                                                                         *)
(* Strings the code inspects (chat messages, API replies) are sequences of *)
(* one-character strings, so that lower(), strip() and the "in" substring  *)
(* test are computed the way Python computes them.                         *)
(***************************************************************************)
EXTENDS Integers, Sequences, FiniteSets, TLC

VARIABLES
    client,                 \* ChatService.client is set (an OpenAI client was built)
    conversation_history,   \* ChatService.conversation_history: id -> list of turns
    last_call,              \* the last process_message call: its inputs, the list
                            \* handed to the completion API, and what it returned
    n_calls,                \* process_message calls made so far
    n_failures,             \* completion API calls that raised so far
    active_connections,     \* ConnectionManager.active_connections: room -> sockets
    ws,                     \* per socket: its handler's position and path parameters
    support_messages,       \* the support_messages table, in commit order
    inbox,                  \* per socket: the broadcast frames its client was sent
    journal_entries,        \* the journal_entries table
    mood_entries,           \* the mood_entries table
    reminders,              \* the reminders table
    chat_messages,          \* the chat_messages table
    last_id,                \* per table: the highest id the database has issued
    scheduler_jobs,         \* the jobs the BackgroundScheduler holds
    active_reminders,       \* ReminderService.active_reminders: reminder id -> job id
    response,               \* the last HTTP request and its response
    n_created,              \* rows created so far in each table (the clock of created_at)
    uploads,                \* the files under uploads/<file_type>/
    n_uploads,              \* files written so far (the source of fresh uuid4 names)
    anonymous_sessions,     \* routers/chat.py anonymous_sessions: session -> messages
    requests,               \* the anonymous chat requests in flight: handler positions
    serial,                 \* the maps a serial run of the completed requests produces
    n_anon,                 \* anonymous chat requests and frames received so far
    http,                   \* the HTTP request on its way through the application
    n_http,                 \* HTTP requests received so far
    running_jobs,           \* jobs the scheduler handed to its executor, not yet run
    users,                  \* the users table
    auth,                   \* the last request to the auth router and its response
    analytics               \* the last get_monthly_analytics call: its rows and result

chat_vars == <<client, conversation_history, last_call, n_calls, n_failures>>
support_vars == <<active_connections, ws, support_messages, inbox>>
crud_vars == <<journal_entries, mood_entries, reminders, chat_messages, last_id,
               scheduler_jobs, active_reminders, response, n_created>>
upload_vars == <<uploads, n_uploads>>
anon_vars == <<anonymous_sessions, requests, serial, n_anon>>
http_vars == <<http, n_http>>
sched_vars == <<running_jobs>>
auth_vars == <<users, auth>>
analytics_vars == <<analytics>>

(***************************************************************************)
(* Bounds of the model.                                                    *)
(***************************************************************************)
MaxCalls == 13          \* process_message calls in one run
MaxFailures == 2        \* completion API failures in one run
MaxConns == 2           \* WebSocket connections opened in one run
MaxMessages == 2        \* peer-support messages persisted in one run
MaxCreates == 2         \* rows created over all tables in one run
MaxUploads == 2         \* files uploaded in one run
MaxInFlight == 2        \* anonymous chat handlers alive at once
MaxAnonRequests == 2    \* anonymous requests and frames in a run of concurrent handlers
MaxSessionMessages == 52 \* anonymous requests and frames in a run of one handler at a time
MaxVoice == 1           \* anonymous voice messages in one run
MaxFreshSessions == 1   \* anonymous requests without a session_id in one run
MaxFallbackCalls == 2   \* process_message calls in a run without an API client
MaxUsers == 2           \* rows of the users table
MaxMoodRows == 2        \* mood rows of the user in an analytics call
MaxHttpRequests == 3    \* HTTP requests followed through the exception handlers

(***************************************************************************)
(* Text helpers.                                                           *)
(***************************************************************************)
Max(a, b) == IF a >= b THEN a ELSE b
Min(a, b) == IF a <= b THEN a ELSE b

\* Python's s[-n:] on a list
LastN(s, n) == SubSeq(s, Max(1, Len(s) - n + 1), Len(s))

UpperToLower ==
    ("A" :> "a") @@ ("B" :> "b") @@ ("C" :> "c") @@ ("D" :> "d") @@ ("E" :> "e") @@ ("F" :> "f") @@ ("G" :> "g") @@ ("H" :> "h") @@ ("I" :> "i") @@ ("J" :> "j") @@ ("K" :> "k") @@ ("L" :> "l") @@ ("M" :> "m") @@ ("N" :> "n") @@ ("O" :> "o") @@ ("P" :> "p") @@ ("Q" :> "q") @@ ("R" :> "r") @@ ("S" :> "s") @@ ("T" :> "t") @@ ("U" :> "u") @@ ("V" :> "v") @@ ("W" :> "w") @@ ("X" :> "x") @@ ("Y" :> "y") @@ ("Z" :> "z")

\* str.lower(), character by character
LowerChar(ch) == IF ch \in DOMAIN UpperToLower THEN UpperToLower[ch] ELSE ch
Lower(s) == [i \in 1..Len(s) |-> LowerChar(s[i])]

\* Python's "kw in s" for strings: kw occurs as a contiguous substring of s
Contains(s, kw) ==
    \E i \in 1..(Len(s) - Len(kw) + 1) : SubSeq(s, i, i + Len(kw) - 1) = kw

Whitespace == {" ", "\n", "\t"}

\* str.strip(): drop leading and trailing whitespace
RECURSIVE LStrip(_)
LStrip(s) == IF s # <<>> /\ Head(s) \in Whitespace THEN LStrip(Tail(s)) ELSE s
RECURSIVE RStrip(_)
RStrip(s) ==
    IF s # <<>> /\ s[Len(s)] \in Whitespace THEN RStrip(SubSeq(s, 1, Len(s) - 1)) ELSE s
Strip(s) == RStrip(LStrip(s))

(***************************************************************************)
(* ChatService._get_fallback_response: the keyword lists and the canned    *)
(* replies (each reply is named by a tag standing for its fixed text).     *)
(***************************************************************************)
crisis_keywords ==
    { <<"s", "u", "i", "c", "i", "d", "e">>,
      <<"k", "i", "l", "l", " ", "m", "y", "s", "e", "l", "f">>,
      <<"e", "n", "d", " ", "i", "t", " ", "a", "l", "l">>,
      <<"c", "a", "n", "'", "t", " ", "g", "o", " ", "o", "n">>,
      <<"w", "a", "n", "t", " ", "t", "o", " ", "d", "i", "e">>,
      <<"h", "u", "r", "t", " ", "m", "y", "s", "e", "l", "f">> }

sadness_words ==
    { <<"s", "a", "d">>,
      <<"c", "r", "y", "i", "n", "g">>,
      <<"t", "e", "a", "r", "s">>,
      <<"h", "e", "a", "r", "t", "b", "r", "o", "k", "e", "n">>,
      <<"d", "e", "v", "a", "s", "t", "a", "t", "e", "d">> }

anger_words ==
    { <<"a", "n", "g", "r", "y">>,
      <<"m", "a", "d">>,
      <<"f", "r", "u", "s", "t", "r", "a", "t", "e", "d">>,
      <<"r", "a", "g", "e">>,
      <<"f", "u", "r", "i", "o", "u", "s">> }

loneliness_words ==
    { <<"l", "o", "n", "e", "l", "y">>,
      <<"a", "l", "o", "n", "e">>,
      <<"i", "s", "o", "l", "a", "t", "e", "d">>,
      <<"e", "m", "p", "t", "y">>,
      <<"a", "b", "a", "n", "d", "o", "n", "e", "d">> }

guilt_words ==
    { <<"g", "u", "i", "l", "t">>,
      <<"r", "e", "g", "r", "e", "t">>,
      <<"s", "h", "o", "u", "l", "d", " ", "h", "a", "v", "e">>,
      <<"i", "f", " ", "o", "n", "l", "y">>,
      <<"m", "y", " ", "f", "a", "u", "l", "t">> }

help_words ==
    { <<"h", "e", "l", "p">>,
      <<"s", "u", "p", "p", "o", "r", "t">>,
      <<"d", "o", "n", "'", "t", " ", "k", "n", "o", "w">>,
      <<"l", "o", "s", "t">>,
      <<"c", "o", "n", "f", "u", "s", "e", "d">> }

missing_words ==
    { <<"m", "i", "s", "s">>,
      <<"m", "i", "s", "s", "i", "n", "g">>,
      <<"m", "e", "m", "o", "r", "i", "e", "s">>,
      <<"r", "e", "m", "e", "m", "b", "e", "r">> }

AnyIn(words, message_lower) == \E w \in words : Contains(message_lower, w)

\* A canned reply is a text of one symbol, which stands for the fixed paragraph
CannedReplies ==
    {<<"crisis_reply">>, <<"sadness_reply">>, <<"anger_reply">>, <<"loneliness_reply">>,
     <<"guilt_reply">>, <<"help_reply">>, <<"missing_reply">>, <<"general_reply">>}

\* _get_fallback_response falling through to the statements after its
\* if/elif chain (lines 241-247), which return a bare parenthesised note
FallbackErrorNote(message, error_type) ==
    IF error_type = "rate_limit" THEN <<"rate_limit_note">>
    ELSE IF error_type = "api_error" THEN <<"api_error_note">>
    ELSE IF error_type = "no_api_key" THEN <<"offline_note">>
    ELSE <<"None">>

\* The if/elif chain with the anger list tested before the sadness list
FallbackAngerFirst(message, error_type) ==
    LET message_lower == Lower(message) IN
    IF AnyIn(crisis_keywords, message_lower) THEN <<"crisis_reply">>
    ELSE IF AnyIn(anger_words, message_lower) THEN <<"anger_reply">>
    ELSE IF AnyIn(sadness_words, message_lower) THEN <<"sadness_reply">>
    ELSE IF AnyIn(loneliness_words, message_lower) THEN <<"loneliness_reply">>
    ELSE IF AnyIn(guilt_words, message_lower) THEN <<"guilt_reply">>
    ELSE IF AnyIn(help_words, message_lower) THEN <<"help_reply">>
    ELSE IF AnyIn(missing_words, message_lower) THEN <<"missing_reply">>
    ELSE <<"general_reply">>

FallbackResponse(message, error_type) ==
    LET message_lower == Lower(message) IN
    IF AnyIn(crisis_keywords, message_lower) THEN <<"crisis_reply">>
    ELSE IF AnyIn(sadness_words, message_lower) THEN <<"sadness_reply">>
    ELSE IF AnyIn(anger_words, message_lower) THEN <<"anger_reply">>
    ELSE IF AnyIn(loneliness_words, message_lower) THEN <<"loneliness_reply">>
    ELSE IF AnyIn(guilt_words, message_lower) THEN <<"guilt_reply">>
    ELSE IF AnyIn(help_words, message_lower) THEN <<"help_reply">>
    ELSE IF AnyIn(missing_words, message_lower) THEN <<"missing_reply">>
    ELSE <<"general_reply">>

\* Messages for the keyword analysis: one or two phrases, each of one keyword
\* list or of none, the first one in lower or in upper case
LowerToUpper ==
    [l \in {UpperToLower[u] : u \in DOMAIN UpperToLower} |->
        CHOOSE u \in DOMAIN UpperToLower : UpperToLower[u] = l]

UpperChar(ch) == IF ch \in DOMAIN LowerToUpper THEN LowerToUpper[ch] ELSE ch

Upper(s) == [i \in 1..Len(s) |-> UpperChar(s[i])]

Phrases ==
    { <<"h", "e", "l", "l", "o">>,
      <<"c", "a", "n", "'", "t", " ", "g", "o", " ", "o", "n">>,
      <<"s", "a", "d">>,
      <<"m", "a", "d", "e">>,
      <<"a", "l", "o", "n", "e">>,
      <<"i", "f", " ", "o", "n", "l", "y">>,
      <<"l", "o", "s", "t">>,
      <<"m", "i", "s", "s">> }

FallbackMessages ==
    {p \o <<" ">> \o q : p \in Phrases \cup {Upper(w) : w \in Phrases}, q \in Phrases}

(***************************************************************************)
(* ChatService: the conversation history and process_message.              *)
(***************************************************************************)
Ids == {"user_1", "anon_s1"}       \* user/session identifiers

\* The one user message and the one raw completion text of the history runs
ChatMessages == { <<"s", "a", "d">> }
ApiContent == <<" ", "o", "k", "\n">>

HistoryLimit == 21      \* len(history) > 21 triggers the truncation
KeepLast == 16          \* history[-16:] is kept after the system prompt

SystemEntry == [role |-> "system", content |-> "system_prompt"]
UserEntry(message) == [role |-> "user", content |-> message]
AssistantEntry(text) == [role |-> "assistant", content |-> text]

\* What the completion API call does: returns a completion or raises
ApiOutcomes == {"ok", "APIError", "RateLimitError", "Exception"}

NoCall == [user_id |-> "none", message |-> <<>>, outcome |-> "none",
           api_messages |-> <<>>, kind |-> "none", text |-> <<>>]

\* "user_id not in self.conversation_history" (ids without a stored history
\* are outside the function's domain)
HistoryOf(hist, user_id) ==
    IF user_id \in DOMAIN hist THEN hist[user_id] ELSE <<SystemEntry>>

\* The truncation with its test off by one (len(history) > 22)
TruncateLate(h) ==
    IF Len(h) > HistoryLimit + 1 THEN <<h[1]>> \o LastN(h, KeepLast) ELSE h

\* The truncation keeping only the tail of the list (history[-17:])
TruncateTailOnly(h) ==
    IF Len(h) > HistoryLimit THEN LastN(h, KeepLast + 1) ELSE h

\* lines 131-136: keep the system prompt and the last 16 entries
Truncate(h) ==
    IF Len(h) > HistoryLimit THEN <<h[1]>> \o LastN(h, KeepLast) ELSE h

\* lines 119-136: the list handed to chat.completions.create
MessagesForApi(hist, message, user_id) ==
    Truncate(Append(HistoryOf(hist, user_id), UserEntry(message)))

\* The except clause that takes an exception raised in the try block of
\* _process_with_openai (RateLimitError is a subclass of APIError, and the
\* clauses are tried in order)
ErrorTypeOf(exc) ==
    IF exc \in {"APIError", "RateLimitError"} THEN "api_error" ELSE "general_error"

\* lines 158-166: every except clause returns the fallback reply
HandleApiException(message, exc) ==
    [kind |-> "return", text |-> FallbackResponse(message, ErrorTypeOf(exc))]

\* _process_with_openai(message, user_id), lines 116-166, with the API call
\* ending in outcome: the history it leaves, the list it handed to the API
\* and what it returns
ProcessWithOpenAI(hist, message, user_id, outcome) ==
    LET sent == MessagesForApi(hist, message, user_id)
        ai_response == Strip(ApiContent)
        ret == IF outcome = "ok"
               THEN [kind |-> "return", text |-> ai_response]
               ELSE HandleApiException(message, outcome)
        stored == IF outcome = "ok" THEN Append(sent, AssistantEntry(ai_response))
                  ELSE sent
    IN  [history |-> [id \in DOMAIN hist \cup {user_id} |->
                         IF id = user_id THEN stored ELSE hist[id]],
         api_messages |-> sent, kind |-> ret.kind, text |-> ret.text]

\* process_message without its test of self.client: the call on the missing
\* client raises inside _process_with_openai
ProcessMessageUnguarded(hist, has_client, message, user_id, outcome) ==
    ProcessWithOpenAI(hist, message, user_id, IF has_client THEN outcome ELSE "Exception")

\* lines 106-114: the try/except of process_message around both branches
ProcessMessageResult(hist, has_client, message, user_id, outcome) ==
    LET inner == IF has_client
                 THEN ProcessWithOpenAI(hist, message, user_id, outcome)
                 ELSE [history |-> hist, api_messages |-> <<>>, kind |-> "return",
                       text |-> FallbackResponse(message, "no_api_key")]
    IN  IF inner.kind = "raise"
        THEN [inner EXCEPT !.kind = "return",
                           !.text = FallbackResponse(message, "general_error")]
        ELSE inner

\* process_message(message, user_id): one call, the API ending in outcome
\* (no API call is made without a client: the outcome is then "no_client")
process_message(message, user_id, outcome) ==
    /\ n_calls < MaxCalls
    /\ outcome = "no_client" <=> ~client
    /\ outcome \notin {"ok", "no_client"} => n_failures < MaxFailures
    /\ LET r == ProcessMessageResult(conversation_history, client, message,
                                     user_id, outcome)
       IN  /\ conversation_history' = r.history
           /\ last_call' = [user_id |-> user_id, message |-> message,
                            outcome |-> outcome, api_messages |-> r.api_messages,
                            kind |-> r.kind, text |-> r.text]
    /\ n_calls' = n_calls + 1
    /\ n_failures' = IF outcome \in {"ok", "no_client"} THEN n_failures
                     ELSE n_failures + 1
    /\ UNCHANGED client

(***************************************************************************)
(* Peer support: ConnectionManager and websocket_endpoint                  *)
(* (routers/support.py).  Every await of the handler is a point where      *)
(* another handler may run, so a broadcast is one step per send_text.      *)
(***************************************************************************)
Conns == 1..MaxConns                    \* the WebSocket objects, in order of arrival
Rooms == {"general", "pet-loss"}        \* room_id path parameters
RegisteredUsers == {1}                  \* ids with a row in the users table
UserIds == {1, 2}                       \* user_id path parameters
Texts == {"hello"}                      \* the "message" field of a frame
Frames == {"malformed_json", "no_message_key"} \cup Texts

Username(user_id) == <<"user", user_id>>

\* Handler positions: "new" (no connection yet), "receive" (awaiting
\* receive_text), "broadcast" (inside manager.broadcast), and the ways a
\* handler ends: "closed" (websocket.close() after an unknown user_id),
\* "disconnected" (WebSocketDisconnect caught), "crashed" (another exception)
Running == {"receive", "broadcast"}
Ended == {"closed", "disconnected", "crashed"}

NoFrame == [username |-> <<>>, message |-> "", timestamp |-> 0]

\* bc_idx and bc_msg are the locals of a running broadcast: the position of
\* its list iterator and the frame it sends; bc_list records the room list as
\* it was when the message arrived (the code keeps no such copy)
NewSocket == [pc |-> "new", room |-> "none", user_id |-> 0, peer |-> "none",
              bc_idx |-> 0, bc_msg |-> NoFrame, bc_list |-> <<>>]

RoomList(conns, room_id) == IF room_id \in DOMAIN conns THEN conns[room_id] ELSE <<>>

InList(list, x) == \E i \in 1..Len(list) : list[i] = x

\* list.remove(x): drops the first occurrence
RemoveFirst(list, x) ==
    LET i == CHOOSE k \in 1..Len(list) :
                 list[k] = x /\ \A j \in 1..(k - 1) : list[j] # x
    IN  SubSeq(list, 1, i - 1) \o SubSeq(list, i + 1, Len(list))

\* ConnectionManager.connect, lines 25-27 (after the accept)
ManagerConnect(conns, websocket, room_id) ==
    [r \in DOMAIN conns \cup {room_id} |->
        IF r = room_id THEN Append(RoomList(conns, room_id), websocket) ELSE conns[r]]

\* ConnectionManager.disconnect, lines 29-31
ManagerDisconnect(conns, websocket, room_id) ==
    IF room_id \in DOMAIN conns
    THEN [conns EXCEPT ![room_id] = RemoveFirst(conns[room_id], websocket)]
    ELSE conns

\* db.add(support_message) without the commit: the row is never stored
SaveWithoutCommit(rows, row) == rows

\* db.add(support_message); db.commit(), lines 100-106
SaveSupportMessage(rows, row) == Append(rows, row)

\* websocket_endpoint lines 86-92: accept, register in the room, look the user
\* up; an unknown user_id closes the socket and returns
Connect(c, room_id, user_id) ==
    /\ ws[c].pc = "new"
    /\ \A d \in Conns : d < c => ws[d].pc # "new"
    /\ active_connections' = ManagerConnect(active_connections, c, room_id)
    /\ ws' = [ws EXCEPT ![c] =
                 [pc |-> IF user_id \in RegisteredUsers THEN "receive" ELSE "closed",
                  room |-> room_id, user_id |-> user_id,
                  peer |-> IF user_id \in RegisteredUsers THEN "connected" ELSE "gone",
                  bc_idx |-> 0, bc_msg |-> NoFrame, bc_list |-> <<>>]]
    /\ UNCHANGED <<support_messages, inbox>>
    /\ UNCHANGED <<chat_vars, crud_vars, upload_vars, anon_vars, http_vars, sched_vars,
                   auth_vars, analytics_vars>>

\* The client of a socket goes away (its handler learns of it at its next
\* receive_text)
ClientGoesAway(c) ==
    /\ ws[c].pc \in Running
    /\ ws[c].peer = "connected"
    /\ ws' = [ws EXCEPT ![c].peer = "gone"]
    /\ UNCHANGED <<active_connections, support_messages, inbox>>
    /\ UNCHANGED <<chat_vars, crud_vars, upload_vars, anon_vars, http_vars, sched_vars,
                   auth_vars, analytics_vars>>

\* lines 96, 117-118: receive_text raises WebSocketDisconnect
ReceiveDisconnect(c) ==
    /\ ws[c].pc = "receive"
    /\ ws[c].peer = "gone"
    /\ IF ws[c].room \in DOMAIN active_connections
          /\ ~InList(active_connections[ws[c].room], c)
       THEN \* list.remove raises ValueError
            /\ ws' = [ws EXCEPT ![c].pc = "crashed"]
            /\ UNCHANGED active_connections
       ELSE /\ active_connections' =
                   ManagerDisconnect(active_connections, c, ws[c].room)
            /\ ws' = [ws EXCEPT ![c].pc = "disconnected"]
    /\ UNCHANGED <<support_messages, inbox>>
    /\ UNCHANGED <<chat_vars, crud_vars, upload_vars, anon_vars, http_vars, sched_vars,
                   auth_vars, analytics_vars>>

\* lines 96-97, 103: a frame that json.loads rejects, or one without the
\* "message" key, ends the handler with an exception it does not catch
ReceiveBadFrame(c, frame) ==
    /\ ws[c].pc = "receive"
    /\ ws[c].peer = "connected"
    /\ frame \in {"malformed_json", "no_message_key"}
    /\ ws' = [ws EXCEPT ![c].pc = "crashed", ![c].peer = "gone"]
    /\ UNCHANGED <<active_connections, support_messages, inbox>>
    /\ UNCHANGED <<chat_vars, crud_vars, upload_vars, anon_vars, http_vars, sched_vars,
                   auth_vars, analytics_vars>>

\* What connection.send_text does for the socket it is called on: a socket
\* with a running handler and a present client takes the frame; a socket the
\* handler closed raises RuntimeError; on a socket whose client is gone or
\* whose handler ended with an exception the send raises (WebSocketDisconnect
\* or another exception, by the server build) or, while the handler still
\* runs, goes into the void
SendOutcomes(sockets, target) ==
    IF sockets[target].pc = "closed" THEN {"error"}
    ELSE IF sockets[target].pc \in Ended THEN {"error", "disconnect"}
    ELSE IF sockets[target].peer = "gone" THEN {"error", "disconnect", "dropped"}
    ELSE {"delivered"}

\* The frame json.dumps(broadcast_data) of a saved row, lines 109-113 (the
\* row's id stands for its created_at)
BroadcastData(row) ==
    [username |-> Username(row.user_id), message |-> row.message,
     timestamp |-> row.id]

\* The handler leaves manager.broadcast (its locals are gone); a handler that
\* ends has its socket closed by the server
BroadcastLeft(socket, pc) ==
    [socket EXCEPT !.pc = pc, !.bc_idx = 0, !.bc_msg = NoFrame, !.bc_list = <<>>,
                   !.peer = IF pc \in Ended THEN "gone" ELSE @]

\* ConnectionManager.broadcast, lines 37-39, from one await to the next: the
\* handler c, whose list iterator stands at sockets[c].bc_idx, takes the next
\* socket of the live room list and calls send_text on it (the frame is
\* written, and the handler is suspended in the send), or finds the list
\* exhausted and goes back to receive_text.  An exception of the send ends
\* the handler: WebSocketDisconnect through the except clause of line 117,
\* which removes the sender's own socket, any other exception uncaught.
BroadcastFrom(c, sockets, outcome) ==
    LET list == RoomList(active_connections, sockets[c].room)
        idx == sockets[c].bc_idx
    IN  IF idx > Len(list)
        THEN /\ outcome = "exhausted"
             /\ ws' = [sockets EXCEPT ![c] = BroadcastLeft(@, "receive")]
             /\ UNCHANGED <<active_connections, inbox>>
        ELSE /\ outcome \in SendOutcomes(sockets, list[idx])
             /\ inbox' = IF outcome = "delivered"
                         THEN [inbox EXCEPT ![list[idx]] =
                                   Append(@, sockets[c].bc_msg)]
                         ELSE inbox
             /\ CASE outcome \in {"delivered", "dropped"} ->
                       /\ ws' = [sockets EXCEPT ![c].pc = "broadcast",
                                                ![c].bc_idx = idx + 1]
                       /\ UNCHANGED active_connections
                  [] outcome = "error" ->
                       /\ ws' = [sockets EXCEPT ![c] = BroadcastLeft(@, "crashed")]
                       /\ UNCHANGED active_connections
                  [] outcome = "disconnect" ->
                       /\ ws' = [sockets EXCEPT ![c] =
                                     BroadcastLeft(@, "disconnected")]
                       /\ active_connections' =
                              ManagerDisconnect(active_connections, c, sockets[c].room)

BroadcastOutcomes == {"delivered", "dropped", "error", "disconnect", "exhausted"}

\* lines 96-115: a well-formed frame is saved and committed, and the handler
\* enters manager.broadcast, up to its first await
ReceiveMessage(c, text, outcome) ==
    /\ ws[c].pc = "receive"
    /\ ws[c].peer = "connected"
    /\ Len(support_messages) < MaxMessages
    /\ LET row == [id |-> Len(support_messages) + 1, user_id |-> ws[c].user_id,
                   room_id |-> ws[c].room, message |-> text]
           rows == SaveSupportMessage(support_messages, row)
       IN  /\ support_messages' = rows
           /\ BroadcastFrom(c, [ws EXCEPT ![c].bc_idx = 1,
                                           ![c].bc_msg = BroadcastData(row),
                                           ![c].bc_list = RoomList(active_connections,
                                                                   row.room_id)],
                            outcome)
    /\ UNCHANGED <<chat_vars, crud_vars, upload_vars, anon_vars, http_vars, sched_vars,
                   auth_vars, analytics_vars>>

\* A handler suspended in a send_text of its broadcast resumes
BroadcastStep(c, outcome) ==
    /\ ws[c].pc = "broadcast"
    /\ BroadcastFrom(c, ws, outcome)
    /\ UNCHANGED support_messages
    /\ UNCHANGED <<chat_vars, crud_vars, upload_vars, anon_vars, http_vars, sched_vars,
                   auth_vars, analytics_vars>>

(***************************************************************************)
(* The REST handlers over the database: journal, mood, reminders and chat  *)
(* history.  A table is the set of its rows; created_at is a logical clock *)
(* that advances with every insert.                                        *)
(***************************************************************************)
Users == {1, 2}                         \* the ids of the authenticated users
UserKey(user_id) == IF user_id = 1 THEN "user_1" ELSE "user_2"

Titles == {"title"}
Contents == {"content"}
MoodValues == {0, 5, 11}
ScheduledTimes == {1}
RecurrencePatterns == {"None", "daily", "hourly"}
EntryIds == 1..MaxCreates         \* ids a request may name
Pages == {<<0, 100>>, <<0, 1>>, <<1, 1>>}    \* the skip and limit of a list request

NoArgs == [none |-> 0]
NoResponse == [op |-> "none", user |-> 0, id |-> 0, skip |-> 0,
               limit |-> 0, status |-> 0, body |-> <<>>, submitted |-> NoArgs]

\* The response of one request, with the request it answers
Respond(op, user, id, skip, limit, status, body, submitted) ==
    [op |-> op, user |-> user, id |-> id, skip |-> skip,
     limit |-> limit, status |-> status, body |-> body, submitted |-> submitted]

\* The primary key the database gives a new row: above every id now in the
\* table (SQLite rowid) or above every id ever issued (a sequence)
MaxIdOf(rows) == IF rows = {} THEN 0 ELSE CHOOSE m \in {r.id : r \in rows} :
                                              \A r \in rows : r.id <= m
Tables == {"journal", "mood", "reminders", "chat"}

\* Rows created so far over all tables
Created == n_created["journal"] + n_created["mood"] + n_created["reminders"]
           + n_created["chat"]

\* The users differ in nothing but their id: the one who creates the first
\* row is called user 1
FirstCreator(user) == Created = 0 => user = 1

NewIds(rows, table) == {MaxIdOf(rows) + 1, last_id[table] + 1}

Issue(table, id) == [last_id EXCEPT ![table] = Max(@, id)]

\* The sequences that hold each row of a set once
Orderings(rows) ==
    {seq \in [1..Cardinality(rows) -> rows] :
        \A i, j \in 1..Cardinality(rows) : i # j => seq[i] # seq[j]}

\* query.order_by(key).all(): rows with equal keys come in any order
Ascending(rows, key) ==
    {seq \in Orderings(rows) :
        \A i, j \in 1..Len(seq) : i < j => seq[i][key] <= seq[j][key]}
Descending(rows, key) ==
    {seq \in Orderings(rows) :
        \A i, j \in 1..Len(seq) : i < j => seq[i][key] >= seq[j][key]}


\* .offset(skip).limit(limit)
OffsetLimit(seq, skip, limit) == SubSeq(seq, skip + 1, Min(Len(seq), skip + limit))

\* ---- journal -----------------------------------------------------------

\* create_entry storing the title as the content
CreateEntrySwapped(entry, user_id, id) ==
    [id |-> id, user_id |-> user_id, title |-> entry.content,
     content |-> entry.title, voice_recording_path |-> "None",
     is_voice_entry |-> FALSE, created_at |-> n_created["journal"] + 1]

\* JournalService.create_entry: the row it adds (is_voice_entry is not
\* taken from the request)
CreateEntry(entry, user_id, id) ==
    [id |-> id, user_id |-> user_id, title |-> entry.title,
     content |-> entry.content, voice_recording_path |-> "None",
     is_voice_entry |-> FALSE, created_at |-> n_created["journal"] + 1]

\* JournalService.create_voice_entry: the row it adds
CreateVoiceEntry(title, voice_path, user_id, id) ==
    [id |-> id, user_id |-> user_id, title |-> title, content |-> "None",
     voice_recording_path |-> voice_path, is_voice_entry |-> TRUE,
     created_at |-> n_created["journal"] + 1]

\* get_user_entries without its user_id filter
GetAllEntries(rows, user_id, skip, limit) ==
    {OffsetLimit(seq, skip, limit) : seq \in Descending(rows, "created_at")}

\* JournalService.get_user_entries: the lists the query may return
GetUserEntries(rows, user_id, skip, limit) ==
    {OffsetLimit(seq, skip, limit) :
        seq \in Descending({r \in rows : r.user_id = user_id}, "created_at")}

\* JournalService.get_entry: the rows the query matches
GetEntry(rows, entry_id, user_id) ==
    {r \in rows : r.id = entry_id /\ r.user_id = user_id}

\* delete_entry without its user_id filter
DeleteAnyEntry(rows, entry_id, user_id) ==
    [success |-> \E r \in rows : r.id = entry_id,
     rows |-> {r \in rows : r.id # entry_id}]

\* JournalService.delete_entry: whether it deleted, and the table it leaves
DeleteEntry(rows, entry_id, user_id) ==
    LET found == {r \in rows : r.id = entry_id /\ r.user_id = user_id}
    IN  [success |-> found # {}, rows |-> rows \ found]

\* POST /entries
create_journal_entry(user, entry) ==
    /\ FirstCreator(user)
    /\ Created < MaxCreates
    /\ \E id \in NewIds(journal_entries, "journal") :
           LET row == CreateEntry(entry, user, id)
           IN  /\ journal_entries' = journal_entries \cup {row}
               /\ last_id' = Issue("journal", id)
               /\ response' = Respond("create_journal_entry", user, 0, 0, 0, 200,
                                      <<row>>, entry)
    /\ n_created' = [n_created EXCEPT !["journal"] = @ + 1]
    /\ UNCHANGED <<mood_entries, reminders, chat_messages, scheduler_jobs,
                   active_reminders>>
    /\ UNCHANGED <<chat_vars, support_vars, upload_vars, anon_vars, http_vars, sched_vars,
                   auth_vars, analytics_vars>>

\* POST /entries/voice
create_voice_journal_entry(user, title, is_audio) ==
    /\ FirstCreator(user)
    /\ is_audio => Created < MaxCreates
    /\ IF ~is_audio
       THEN /\ response' = Respond("create_voice_journal_entry", user, 0, 0, 0, 400,
                                   <<>>, [title |-> title])
            /\ UNCHANGED <<journal_entries, last_id, n_created>>
       ELSE /\ \E id \in NewIds(journal_entries, "journal") :
                   LET row == CreateVoiceEntry(title, "voice_path", user, id)
                   IN  /\ journal_entries' = journal_entries \cup {row}
                       /\ last_id' = Issue("journal", id)
                       /\ response' = Respond("create_voice_journal_entry", user, 0,
                                              0, 0, 200, <<row>>, [title |-> title])
            /\ n_created' = [n_created EXCEPT !["journal"] = @ + 1]
    /\ UNCHANGED <<mood_entries, reminders, chat_messages, scheduler_jobs,
                   active_reminders>>
    /\ UNCHANGED <<chat_vars, support_vars, upload_vars, anon_vars, http_vars, sched_vars,
                   auth_vars, analytics_vars>>

\* GET /entries
get_journal_entries(user, skip, limit) ==
    /\ \E list \in GetUserEntries(journal_entries, user, skip, limit) :
           response' = Respond("get_journal_entries", user, 0, skip, limit, 200,
                               list, NoArgs)
    /\ UNCHANGED <<journal_entries, mood_entries, reminders, chat_messages, last_id,
                   scheduler_jobs, active_reminders, n_created>>
    /\ UNCHANGED <<chat_vars, support_vars, upload_vars, anon_vars, http_vars, sched_vars,
                   auth_vars, analytics_vars>>

\* GET /entries/{entry_id}
get_journal_entry(user, entry_id) ==
    /\ LET found == GetEntry(journal_entries, entry_id, user)
       IN  IF found = {}
           THEN response' = Respond("get_journal_entry", user, entry_id, 0, 0, 404,
                                    <<>>, NoArgs)
           ELSE \E row \in found :
                    response' = Respond("get_journal_entry", user, entry_id, 0, 0,
                                        200, <<row>>, NoArgs)
    /\ UNCHANGED <<journal_entries, mood_entries, reminders, chat_messages, last_id,
                   scheduler_jobs, active_reminders, n_created>>
    /\ UNCHANGED <<chat_vars, support_vars, upload_vars, anon_vars, http_vars, sched_vars,
                   auth_vars, analytics_vars>>

\* DELETE /entries/{entry_id}
delete_journal_entry(user, entry_id) ==
    /\ LET done == DeleteEntry(journal_entries, entry_id, user)
       IN  /\ journal_entries' = done.rows
           /\ response' = Respond("delete_journal_entry", user, entry_id, 0, 0,
                                  IF done.success THEN 200 ELSE 404, <<>>, NoArgs)
    /\ UNCHANGED <<mood_entries, reminders, chat_messages, last_id, scheduler_jobs,
                   active_reminders, n_created>>
    /\ UNCHANGED <<chat_vars, support_vars, upload_vars, anon_vars, http_vars, sched_vars,
                   auth_vars, analytics_vars>>

\* ---- mood --------------------------------------------------------------

\* MoodService.create_mood_entry: the row it adds
CreateMoodRow(mood_entry, user_id, id) ==
    [id |-> id, user_id |-> user_id, mood_value |-> mood_entry.mood_value,
     mood_emoji |-> mood_entry.mood_emoji, notes |-> mood_entry.notes,
     created_at |-> n_created["mood"] + 1]

\* MoodService.get_user_mood_entries: the lists the query may return
GetUserMoodEntries(rows, user_id, skip, limit) ==
    {OffsetLimit(seq, skip, limit) :
        seq \in Descending({r \in rows : r.user_id = user_id}, "created_at")}

\* mood_value is a float: the values are integers and NaN, the float that a
\* JSON body may carry and that compares false with everything
NaN == -999

FloatLt(a, b) == a # NaN /\ b # NaN /\ a < b

FloatGt(a, b) == a # NaN /\ b # NaN /\ a > b

\* What db.commit() does with a row whose Float column is NaN: the database
\* stores it, or takes it for NULL and raises for the NOT NULL column
NaNCommits == {"stored", "IntegrityError"}

\* POST /entries (mood).  A NaN row that was stored cannot be written as JSON:
\* the request is answered 500 in both cases
create_mood_entry(user, mood_entry) ==
    /\ FirstCreator(user)
    /\ IF FloatLt(mood_entry.mood_value, 1) \/ FloatGt(mood_entry.mood_value, 10)
       THEN /\ response' = Respond("create_mood_entry", user, 0, 0, 0, 400, <<>>,
                                   mood_entry)
            /\ UNCHANGED <<mood_entries, last_id, n_created>>
       ELSE /\ Created < MaxCreates
            /\ \E id \in NewIds(mood_entries, "mood"), commit \in NaNCommits :
                   LET row == CreateMoodRow(mood_entry, user, id)
                   IN  IF mood_entry.mood_value # NaN
                       THEN /\ commit = "stored"
                            /\ mood_entries' = mood_entries \cup {row}
                            /\ last_id' = Issue("mood", id)
                            /\ response' = Respond("create_mood_entry", user, 0, 0, 0,
                                                   200, <<row>>, mood_entry)
                       ELSE /\ mood_entries' = IF commit = "stored"
                                               THEN mood_entries \cup {row}
                                               ELSE mood_entries
                            /\ last_id' = IF commit = "stored" THEN Issue("mood", id)
                                          ELSE last_id
                            /\ response' = Respond("create_mood_entry", user, 0, 0, 0,
                                                   500, <<>>, mood_entry)
            /\ n_created' = [n_created EXCEPT !["mood"] = @ + 1]
    /\ UNCHANGED <<journal_entries, reminders, chat_messages, scheduler_jobs,
                   active_reminders>>
    /\ UNCHANGED <<chat_vars, support_vars, upload_vars, anon_vars, http_vars, sched_vars,
                   auth_vars, analytics_vars>>

\* GET /entries (mood)
get_mood_entries(user, skip, limit) ==
    /\ \E list \in GetUserMoodEntries(mood_entries, user, skip, limit) :
           response' = Respond("get_mood_entries", user, 0, skip, limit, 200, list,
                               NoArgs)
    /\ UNCHANGED <<journal_entries, mood_entries, reminders, chat_messages, last_id,
                   scheduler_jobs, active_reminders, n_created>>
    /\ UNCHANGED <<chat_vars, support_vars, upload_vars, anon_vars, http_vars, sched_vars,
                   auth_vars, analytics_vars>>

\* ---- reminders ---------------------------------------------------------
ValidPatterns == {"daily", "weekly", "monthly"}

\* The dictionary create_reminder returns, lines 54-61
ReminderCreated(row) ==
    [id |-> row.id, title |-> row.title, message |-> row.message,
     scheduled_time |-> row.scheduled_time, is_recurring |-> row.is_recurring,
     recurrence_pattern |-> row.recurrence_pattern]

\* One item of the list list_reminders returns, lines 75-83
ReminderListed(row) ==
    [id |-> row.id, title |-> row.title, message |-> row.message,
     scheduled_time |-> row.scheduled_time, is_recurring |-> row.is_recurring,
     recurrence_pattern |-> row.recurrence_pattern, is_sent |-> row.is_sent]

\* ReminderService.schedule_reminder: the job id of a reminder, lines 26-35
JobId(reminder) ==
    <<reminder.id, IF reminder.is_recurring THEN "recurring" ELSE "once">>

\* ReminderService.cancel_reminder, lines 46-55: remove_job raises for a job
\* the scheduler no longer holds, and the entry of active_reminders then stays
CancelReminder(jobs, active, reminder_id) ==
    IF reminder_id \in DOMAIN active /\ active[reminder_id] \in jobs
    THEN [jobs |-> jobs \ {active[reminder_id]},
          active |-> [r \in DOMAIN active \ {reminder_id} |-> active[r]]]
    ELSE [jobs |-> jobs, active |-> active]

\* POST /create (reminders)
create_reminder(user, args) ==
    /\ FirstCreator(user)
    /\ IF \/ args.is_recurring /\ args.recurrence_pattern = "None"
          \/ args.recurrence_pattern # "None"
               /\ args.recurrence_pattern \notin ValidPatterns
       THEN /\ response' = Respond("create_reminder", user, 0, 0, 0, 400, <<>>, args)
            /\ UNCHANGED <<reminders, last_id, scheduler_jobs, active_reminders,
                           n_created>>
       ELSE /\ Created < MaxCreates
            /\ \E id \in NewIds(reminders, "reminders") :
                   LET row == [id |-> id, user_id |-> user, title |-> args.title,
                               message |-> args.message,
                               scheduled_time |-> args.scheduled_time,
                               is_sent |-> FALSE,
                               is_recurring |-> args.is_recurring,
                               recurrence_pattern |-> args.recurrence_pattern,
                               created_at |-> n_created["reminders"] + 1]
                   IN  /\ reminders' = reminders \cup {row}
                       /\ last_id' = Issue("reminders", id)
                       /\ scheduler_jobs' = scheduler_jobs \cup {JobId(row)}
                       /\ active_reminders' =
                              [r \in DOMAIN active_reminders \cup {id} |->
                                  IF r = id THEN JobId(row) ELSE active_reminders[r]]
                       /\ response' = Respond("create_reminder", user, 0, 0, 0, 200,
                                              <<ReminderCreated(row)>>, args)
            /\ n_created' = [n_created EXCEPT !["reminders"] = @ + 1]
    /\ UNCHANGED <<journal_entries, mood_entries, chat_messages>>
    /\ UNCHANGED <<chat_vars, support_vars, upload_vars, anon_vars, http_vars, sched_vars,
                   auth_vars, analytics_vars>>

\* GET /list (reminders)
list_reminders(user) ==
    /\ \E seq \in Ascending({r \in reminders : r.user_id = user}, "scheduled_time") :
           response' = Respond("list_reminders", user, 0, 0, 0, 200,
                               [i \in 1..Len(seq) |-> ReminderListed(seq[i])], NoArgs)
    /\ UNCHANGED <<journal_entries, mood_entries, reminders, chat_messages, last_id,
                   scheduler_jobs, active_reminders, n_created>>
    /\ UNCHANGED <<chat_vars, support_vars, upload_vars, anon_vars, http_vars, sched_vars,
                   auth_vars, analytics_vars>>

\* The rows delete_reminder's query matches, lines 95-98
ReminderLookup(rows, reminder_id, user_id) ==
    {r \in rows : r.id = reminder_id /\ r.user_id = user_id}

\* DELETE /{reminder_id}
delete_reminder(user, reminder_id) ==
    /\ LET found == ReminderLookup(reminders, reminder_id, user)
           cancelled == CancelReminder(scheduler_jobs, active_reminders, reminder_id)
       IN  IF found = {}
           THEN /\ response' = Respond("delete_reminder", user, reminder_id, 0, 0,
                                       404, <<>>, NoArgs)
                /\ UNCHANGED <<reminders, scheduler_jobs, active_reminders>>
           ELSE /\ scheduler_jobs' = cancelled.jobs
                /\ active_reminders' = cancelled.active
                /\ reminders' = reminders \ found
                /\ response' = Respond("delete_reminder", user, reminder_id, 0, 0,
                                       200, <<>>, NoArgs)
    /\ UNCHANGED <<journal_entries, mood_entries, chat_messages, last_id, n_created>>
    /\ UNCHANGED <<chat_vars, support_vars, upload_vars, anon_vars, http_vars, sched_vars,
                   auth_vars, analytics_vars>>

\* ReminderService._send_reminder, lines 82-110: the reminders table it leaves
SendReminder(rows, reminder_id) ==
    {IF r.id = reminder_id /\ ~r.is_recurring THEN [r EXCEPT !.is_sent = TRUE] ELSE r :
        r \in rows}

\* The scheduler runs a job that is due: a date-triggered job then leaves the
\* scheduler, a cron-triggered one stays
job_is_due(job) ==
    /\ job \in scheduler_jobs
    /\ scheduler_jobs' = IF job[2] = "once" THEN scheduler_jobs \ {job}
                         ELSE scheduler_jobs
    /\ reminders' = SendReminder(reminders, job[1])
    /\ UNCHANGED <<journal_entries, mood_entries, chat_messages, last_id,
                   active_reminders, response, n_created>>
    /\ UNCHANGED <<chat_vars, support_vars, upload_vars, anon_vars, http_vars, sched_vars,
                   auth_vars, analytics_vars>>

\* The reminder row a job of the scheduler was added for: the row that has the
\* job's reminder id while the job is in the scheduler (0: none)
OwnerOf(rows, job) ==
    IF \E r \in rows : r.id = job[1]
    THEN (CHOOSE r \in rows : r.id = job[1]).created_at
    ELSE 0

\* The scheduler finds a job due and submits it to its executor, which runs
\* _send_reminder in a thread of its pool; a date-triggered job leaves the
\* scheduler at that moment, a cron-triggered one stays.  The third component
\* of a submitted job records the row the job was added for.
job_is_submitted(job) ==
    /\ job \in scheduler_jobs
    /\ \A run \in running_jobs : <<run[1], run[2]>> # job
    /\ scheduler_jobs' = IF job[2] = "once" THEN scheduler_jobs \ {job}
                         ELSE scheduler_jobs
    /\ running_jobs' = running_jobs \cup {<<job[1], job[2], OwnerOf(reminders, job)>>}
    /\ UNCHANGED <<journal_entries, mood_entries, reminders, chat_messages, last_id,
                   active_reminders, response, n_created>>
    /\ UNCHANGED <<chat_vars, support_vars, upload_vars, anon_vars, http_vars, auth_vars, analytics_vars>>

\* The executor's thread runs _send_reminder(reminder_id, ...) of a submitted
\* job
send_reminder_runs(run) ==
    /\ run \in running_jobs
    /\ reminders' = SendReminder(reminders, run[1])
    /\ running_jobs' = running_jobs \ {run}
    /\ UNCHANGED <<journal_entries, mood_entries, chat_messages, last_id,
                   scheduler_jobs, active_reminders, response, n_created>>
    /\ UNCHANGED <<chat_vars, support_vars, upload_vars, anon_vars, http_vars, auth_vars, analytics_vars>>

\* ---- chat (authenticated) ----------------------------------------------

\* POST /message: the reply of the chat service is saved with the message
send_message(user, message, outcome) ==
    /\ FirstCreator(user)
    /\ Created < MaxCreates
    /\ process_message(message, UserKey(user), outcome)
    /\ \E id \in NewIds(chat_messages, "chat") :
           LET row == [id |-> id, user_id |-> user, message |-> message,
                       response |-> last_call'.text, is_voice_message |-> FALSE,
                       voice_file_path |-> "None", created_at |-> n_created["chat"] + 1]
           IN  /\ chat_messages' = chat_messages \cup {row}
               /\ last_id' = Issue("chat", id)
               /\ response' = Respond("send_message", user, 0, 0, 0, 200,
                                      <<[message |-> message,
                                         response |-> last_call'.text]>>,
                                      [message |-> message])
    /\ n_created' = [n_created EXCEPT !["chat"] = @ + 1]
    /\ UNCHANGED <<journal_entries, mood_entries, reminders, scheduler_jobs,
                   active_reminders>>
    /\ UNCHANGED <<support_vars, upload_vars, anon_vars, http_vars, sched_vars,
                   auth_vars, analytics_vars>>

\* One item of the list get_chat_history returns, lines 193-202
ChatListed(row) ==
    [id |-> row.id, message |-> row.message, response |-> row.response,
     is_voice_message |-> row.is_voice_message,
     voice_file_path |-> row.voice_file_path, created_at |-> row.created_at]

\* GET /history
get_chat_history(user, skip, limit) ==
    /\ \E seq \in Descending({r \in chat_messages : r.user_id = user}, "created_at") :
           response' = Respond("get_chat_history", user, 0, skip, limit, 200,
                               [i \in 1..Len(OffsetLimit(seq, skip, limit)) |->
                                   ChatListed(OffsetLimit(seq, skip, limit)[i])],
                               NoArgs)
    /\ UNCHANGED <<journal_entries, mood_entries, reminders, chat_messages, last_id,
                   scheduler_jobs, active_reminders, n_created>>
    /\ UNCHANGED <<chat_vars, support_vars, upload_vars, anon_vars, http_vars, sched_vars,
                   auth_vars, analytics_vars>>

(***************************************************************************)
(* File uploads (routers/upload.py).  The files live in the directories    *)
(* uploads/<file_type>/ under names made of a fresh uuid4 and the          *)
(* extension of the submitted name; nothing on disk or in the database     *)
(* records who uploaded a file, so uploaded_by below is kept only to state *)
(* the claims.                                                             *)
(***************************************************************************)
ALLOWED_EXTENSIONS ==
    [audio |-> {<<"m", "p", "3">>, <<"w", "a", "v">>, <<"o", "g", "g">>,
                <<"m", "4", "a">>, <<"w", "e", "b", "m">>},
     document |-> {<<"p", "d", "f">>, <<"t", "x", "t">>, <<"d", "o", "c">>,
                   <<"d", "o", "c", "x">>},
     image |-> {<<"j", "p", "g">>, <<"j", "p", "e", "g">>, <<"p", "n", "g">>,
                <<"g", "i", "f">>, <<"w", "e", "b", "p">>}]

MAX_FILE_SIZE == 10485760

\* The order in which the handlers go through ALLOWED_EXTENSIONS.keys()
FileTypeOrder == <<"audio", "document", "image">>

FileTypes == {"audio", "image", "video"}            \* file_type form values
FileNames == { <<>>, <<"a", ".", "M", "P", "3">>, <<"b", ".", "p", "n", "g">>,
               <<"n", "o", "t", "e", "s">> }         \* submitted file names
FileSizes == {0, 1, MAX_FILE_SIZE + 1}              \* len(content)

\* filename.split('.')[-1]: what follows the last dot (the whole name if
\* there is none)
RECURSIVE AfterLastDot(_)
AfterLastDot(name) ==
    IF name = <<>> THEN <<>>
    ELSE IF Contains(Tail(name), <<".">>) THEN AfterLastDot(Tail(name))
    ELSE IF Head(name) = "." THEN Tail(name)
    ELSE IF Contains(name, <<".">>) THEN AfterLastDot(Tail(name))
    ELSE name

\* upload_file line 75: the extension that is checked
FileExtension(name) ==
    IF Contains(name, <<".">>) THEN Lower(AfterLastDot(name)) ELSE <<>>

\* get_safe_filename: a fresh uuid4 (here the number uuid) and the extension
GetSafeFilename(original_filename, uuid) ==
    IF original_filename = <<>> THEN <<uuid, <<"b", "i", "n">>>>
    ELSE <<uuid, IF Contains(original_filename, <<".">>)
                 THEN Lower(AfterLastDot(original_filename))
                 ELSE <<"b", "i", "n">>>>

\* The names delete_file may be asked to delete
StoredNames == {<<uuid, ext>> : uuid \in 1..MaxUploads,
                                ext \in {<<"m", "p", "3">>, <<"p", "n", "g">>}}

\* upload_file: the status of the checks of lines 67-91 (200: all passed)
UploadStatus(file_type, filename, size) ==
    IF file_type \notin DOMAIN ALLOWED_EXTENSIONS THEN 400
    ELSE IF filename = <<>> THEN 400
    ELSE IF FileExtension(filename) \notin ALLOWED_EXTENSIONS[file_type] THEN 400
    ELSE IF size > MAX_FILE_SIZE THEN 400
    ELSE IF size = 0 THEN 400
    ELSE 200

\* POST /file
upload_file(user, file_type, filename, size) ==
    /\ IF UploadStatus(file_type, filename, size) # 200
       THEN /\ response' = Respond("upload_file", user, 0, 0, 0, 400, <<>>,
                                   [file_type |-> file_type, filename |-> filename])
            /\ UNCHANGED <<uploads, n_uploads>>
       ELSE /\ n_uploads < MaxUploads
            /\ LET safe_filename == GetSafeFilename(filename, n_uploads + 1)
               IN  /\ uploads' = uploads \cup
                          {[filename |-> safe_filename, file_type |-> file_type,
                            size |-> size, uploaded_by |-> user]}
                   /\ response' = Respond("upload_file", user, safe_filename, 0, 0, 200,
                                          <<[filename |-> safe_filename,
                                             file_type |-> file_type, size |-> size]>>,
                                          [file_type |-> file_type,
                                           filename |-> filename])
            /\ n_uploads' = n_uploads + 1
    /\ UNCHANGED <<journal_entries, mood_entries, reminders, chat_messages, last_id,
                   scheduler_jobs, active_reminders, n_created>>
    /\ UNCHANGED <<chat_vars, support_vars, anon_vars, http_vars, sched_vars,
                   auth_vars, analytics_vars>>

\* list_user_files lines 133-149: every file of every upload directory
\* (os.listdir gives the names of a directory in no particular order)
ListUserFiles(files, user) ==
    {[filename |-> f.filename, file_type |-> f.file_type, size |-> f.size] :
        f \in {g \in files : g.file_type \in DOMAIN ALLOWED_EXTENSIONS}}

\* GET /files
list_user_files(user) ==
    /\ response' = Respond("list_user_files", user, 0, 0, 0, 200,
                           ListUserFiles(uploads, user), NoArgs)
    /\ UNCHANGED <<journal_entries, mood_entries, reminders, chat_messages, last_id,
                   scheduler_jobs, active_reminders, n_created>>
    /\ UNCHANGED <<chat_vars, support_vars, upload_vars, anon_vars, http_vars, sched_vars,
                   auth_vars, analytics_vars>>

\* delete_file lines 171-179: the file removed, the first uploads/<file_type>/
\* <filename> that exists
RECURSIVE FileToDelete(_, _, _)
FileToDelete(files, filename, i) ==
    IF i > Len(FileTypeOrder) THEN {}
    ELSE LET here == {f \in files : f.filename = filename
                                    /\ f.file_type = FileTypeOrder[i]}
         IN  IF here # {} THEN here ELSE FileToDelete(files, filename, i + 1)

\* DELETE /file/{filename}
delete_file(user, filename) ==
    /\ LET found == FileToDelete(uploads, filename, 1)
       IN  IF found = {}
           THEN /\ response' = Respond("delete_file", user, filename, 0, 0, 404, <<>>,
                                       NoArgs)
                /\ UNCHANGED uploads
           ELSE /\ uploads' = uploads \ found
                /\ response' = Respond("delete_file", user, filename, 0, 0, 200, <<>>,
                                       NoArgs)
    /\ UNCHANGED <<journal_entries, mood_entries, reminders, chat_messages, last_id,
                   scheduler_jobs, active_reminders, n_created>>
    /\ UNCHANGED <<n_uploads, chat_vars, support_vars, anon_vars, http_vars, sched_vars,
                   auth_vars, analytics_vars>>

(***************************************************************************)
(* Anonymous chat (routers/chat.py): send_anonymous_message,               *)
(* send_anonymous_voice_message and anonymous_websocket_endpoint.  The     *)
(* handlers are coroutines on one event loop: a handler runs until it      *)
(* awaits something that suspends it, and only then may another handler    *)
(* run.  Awaiting process_message does not suspend: _process_with_openai   *)
(* calls the synchronous client and awaits nothing.                        *)
(***************************************************************************)
SESSION_LIMIT == 50     \* len(anonymous_sessions[session_id]) > 50 cuts to [-50:]

NoSession == <<>>                            \* session_id: Optional[str] = None
KnownSessions == { <<"s1">> }                \* session ids the clients send
AnonymousUserId(session_id) == <<"anon_">> \o session_id

\* "Voice message received - providing compassionate grief support."
TranscribedText ==
    <<"V", "o", "i", "c", "e", " ", "m", "e", "s", "s", "a", "g", "e", " ", "r",
    "e", "c", "e", "i", "v", "e", "d", " ", "-", " ", "p", "r", "o", "v", "i", "d",
    "i", "n", "g", " ", "c", "o", "m", "p", "a", "s", "s", "i", "o", "n", "a", "t",
    "e", " ", "g", "r", "i", "e", "f", " ", "s", "u", "p", "p", "o", "r", "t", ".">>

\* The statements of a handler, in order; those that use the chat service and
\* the session map are the same in the three handlers but for the cut to 50
Program(kind) ==
    IF kind = "text"
    THEN <<"begin", "append_user", "api_call", "append_reply", "store_capped",
           "return">>
    ELSE IF kind = "voice"
    THEN <<"begin", "file_io", "append_user", "api_call", "append_reply", "store",
           "return">>
    ELSE IF kind = "not_audio" THEN <<"begin", "return">>
    ELSE <<"receive", "append_user", "api_call", "append_reply", "store", "send">>

\* The statements at which a handler is suspended and the event loop may run
\* another handler: the handler's start, the aiofiles awaits and the awaits of
\* the WebSocket.  With the asynchronous client the completion call would
\* suspend as well.
SuspendsWithAsyncClient == {"begin", "file_io", "receive", "send", "api_call"}

Suspends == {"begin", "file_io", "receive", "send"}

NoRequest == [kind |-> "none", pc |-> 0, session_id |-> <<>>, message |-> <<>>,
              outcome |-> "none"]

InFlight(reqs) == {slot \in DOMAIN reqs : reqs[slot].kind # "none"}

\* _process_with_openai lines 119-136 for the request: the identifier's
\* history gets the user turn and is truncated
AppendUser(hist, req) ==
    LET user_id == AnonymousUserId(req.session_id)
    IN  [id \in DOMAIN hist \cup {user_id} |->
            IF id = user_id THEN MessagesForApi(hist, req.message, user_id)
            ELSE hist[id]]

\* _process_with_openai lines 148-154: the reply is appended to the list the
\* identifier has now; a call that raised appends nothing
AppendReply(hist, req) ==
    LET user_id == AnonymousUserId(req.session_id)
    IN  IF req.outcome = "ok"
        THEN [hist EXCEPT ![user_id] = Append(@, AssistantEntry(Strip(ApiContent)))]
        ELSE hist

\* What process_message returns to the handler
ReplyOf(req) ==
    IF req.outcome = "ok" THEN Strip(ApiContent)
    ELSE FallbackResponse(req.message, ErrorTypeOf(req.outcome))

\* The dictionary a handler appends to the session's list (keys a handler
\* does not set are written as False and "None")
SessionEntry(req) ==
    [message |-> req.message, response |-> ReplyOf(req), timestamp |-> "now",
     is_voice |-> req.kind = "voice",
     voice_file_path |-> IF req.kind = "voice" THEN "voice_path" ELSE "None"]

\* send_anonymous_message lines 71-73
Cap(list) == IF Len(list) > SESSION_LIMIT THEN LastN(list, SESSION_LIMIT) ELSE list

\* The session map after a handler stored the exchange; only
\* send_anonymous_message cuts the list
Store(sessions, req, capped) ==
    LET old == IF req.session_id \in DOMAIN sessions THEN sessions[req.session_id]
               ELSE <<>>
        new == Append(old, SessionEntry(req))
    IN  [sid \in DOMAIN sessions \cup {req.session_id} |->
            IF sid = req.session_id THEN (IF capped THEN Cap(new) ELSE new)
            ELSE sessions[sid]]

\* One statement of a handler on the two shared maps
Exec(maps, req, statement) ==
    IF statement = "append_user"
    THEN [maps EXCEPT !.history = AppendUser(maps.history, req)]
    ELSE IF statement = "append_reply"
    THEN [maps EXCEPT !.history = AppendReply(maps.history, req)]
    ELSE IF statement = "store_capped"
    THEN [maps EXCEPT !.sessions = Store(maps.sessions, req, TRUE)]
    ELSE IF statement = "store"
    THEN [maps EXCEPT !.sessions = Store(maps.sessions, req, FALSE)]
    ELSE maps

\* The handler resumes at statement i and runs until the next statement that
\* suspends it (pc is then that statement) or to its end (pc 0); the
\* WebSocket handler loops back to its receive
RECURSIVE RunFrom(_, _, _)
RunFrom(maps, req, i) ==
    LET prog == Program(req.kind)
        after == Exec(maps, req, prog[i])
        next == IF i < Len(prog) THEN i + 1 ELSE IF req.kind = "ws" THEN 1 ELSE 0
    IN  IF next = 0 \/ prog[next] \in Suspends
        THEN [maps |-> after, pc |-> next,
              stored |-> prog[i] \in {"store", "store_capped"}]
        ELSE LET rest == RunFrom(after, req, next)
             IN  [rest EXCEPT !.stored = @ \/ prog[i] \in {"store", "store_capped"}]

\* The two maps after the whole handler ran on them without interruption
SerialRun(maps, req) ==
    Exec(Exec(Exec(maps, req, "append_user"), req, "append_reply"), req,
         IF req.kind = "text" THEN "store_capped" ELSE "store")

SharedMaps == [history |-> conversation_history, sessions |-> anonymous_sessions]

\* The effect of a run of the handler in slot on the state
Resume(slot, req) ==
    LET run == RunFrom(SharedMaps, req, req.pc)
    IN  /\ conversation_history' = run.maps.history
        /\ anonymous_sessions' = run.maps.sessions
        /\ serial' = IF run.stored THEN SerialRun(serial, req) ELSE serial
        /\ requests' = [requests EXCEPT
               ![slot] = IF run.pc = 0 THEN NoRequest
                         ELSE [req EXCEPT !.pc = run.pc]]

VoiceMessages(sessions, reqs) ==
    Cardinality({slot \in InFlight(reqs) : reqs[slot].kind = "voice"})
    + Cardinality({p \in {<<sid, i>> : sid \in DOMAIN sessions, i \in 1..SESSION_LIMIT + 3} :
                      /\ p[2] <= Len(sessions[p[1]])
                      /\ sessions[p[1]][p[2]].is_voice})

FreshSessions(sessions, reqs) ==
    ({sid \in DOMAIN sessions : TRUE} \cup {reqs[slot].session_id : slot \in InFlight(reqs)})
    \ KnownSessions

\* "if not session_id: session_id = str(uuid.uuid4())": a session id no one has
SessionIdOf(session_id) ==
    IF session_id = NoSession
    THEN <<"uuid", Cardinality(FreshSessions(anonymous_sessions, requests)) + 1>>
    ELSE session_id

\* A client sends POST /message/anonymous or POST /voice-message/anonymous, or
\* opens the anonymous WebSocket: a handler is created, suspended at its start
\* (the WebSocket handler: at its first receive, after accept)
Arrive(slot, kind, session_id, outcome) ==
    /\ requests[slot].kind = "none"
    /\ \A lower \in DOMAIN requests : lower < slot => requests[lower].kind # "none"
    /\ kind \in {"text", "voice", "not_audio", "ws"}
    /\ kind = "ws" => session_id # NoSession
    /\ kind = "voice" => VoiceMessages(anonymous_sessions, requests) < MaxVoice
    /\ session_id = NoSession =>
           Cardinality(FreshSessions(anonymous_sessions, requests)) < MaxFreshSessions
    /\ requests' = [requests EXCEPT ![slot] =
           [kind |-> kind, pc |-> 1, session_id |-> SessionIdOf(session_id),
            message |-> IF kind = "voice" THEN TranscribedText
                        ELSE IF kind = "text" THEN CHOOSE m \in ChatMessages : TRUE
                        ELSE <<>>,
            outcome |-> outcome]]
    /\ n_anon' = IF kind = "ws" THEN n_anon ELSE n_anon + 1
    /\ UNCHANGED <<conversation_history, anonymous_sessions, serial>>
    /\ UNCHANGED <<client, last_call, n_calls, n_failures>>
    /\ UNCHANGED <<support_vars, crud_vars, upload_vars, http_vars, sched_vars,
                   auth_vars, analytics_vars>>

\* The event loop resumes a handler whose await is over
HandlerRuns(slot) ==
    /\ requests[slot].kind # "none"
    /\ Program(requests[slot].kind)[requests[slot].pc] \in Suspends \ {"receive"}
    /\ Resume(slot, requests[slot])
    /\ UNCHANGED <<n_anon, client, last_call, n_calls, n_failures>>
    /\ UNCHANGED <<support_vars, crud_vars, upload_vars, http_vars, sched_vars,
                   auth_vars, analytics_vars>>

\* A frame arrives on an anonymous WebSocket: receive_text returns it
FrameArrives(slot, message, outcome) ==
    /\ requests[slot].kind = "ws"
    /\ Program("ws")[requests[slot].pc] = "receive"
    /\ Resume(slot, [requests[slot] EXCEPT !.message = message, !.outcome = outcome])
    /\ n_anon' = n_anon + 1
    /\ UNCHANGED <<client, last_call, n_calls, n_failures>>
    /\ UNCHANGED <<support_vars, crud_vars, upload_vars, http_vars, sched_vars,
                   auth_vars, analytics_vars>>

\* The client of an anonymous WebSocket goes away: receive_text raises
\* WebSocketDisconnect and the handler ends
SocketCloses(slot) ==
    /\ requests[slot].kind = "ws"
    /\ Program("ws")[requests[slot].pc] = "receive"
    /\ requests' = [requests EXCEPT ![slot] = NoRequest]
    /\ UNCHANGED <<conversation_history, anonymous_sessions, serial, n_anon>>
    /\ UNCHANGED <<client, last_call, n_calls, n_failures>>
    /\ UNCHANGED <<support_vars, crud_vars, upload_vars, http_vars, sched_vars,
                   auth_vars, analytics_vars>>

(***************************************************************************)
(* The application's exception handling (main.py): an exception that       *)
(* leaves an endpoint handler passes the handlers registered on the app.   *)
(* HTTPException has the framework's handler (status code and detail of    *)
(* the exception); main.py registers global_exception_handler for          *)
(* Exception, which answers everything else.                               *)
(***************************************************************************)
GenericDetail == <<"Internal server error. Please try again later.">>

NoException == [type |-> "none", status_code |-> 0, detail |-> <<>>]

HttpException(status_code, detail) ==
    [type |-> "HTTPException", status_code |-> status_code, detail |-> detail]

OtherException(type, text) == [type |-> type, status_code |-> 0, detail |-> <<text>>]

\* Endpoint handlers: the HTTPExceptions the handler raises itself (they leave
\* it as they are: raised outside its try, or re-raised by "except
\* HTTPException: raise") and what it does with any other exception of its
\* body: nothing ("plain") or "except Exception as e: raise
\* HTTPException(status_code=500, detail=f"<prefix>{str(e)}")" ("wraps")
Endpoints ==
    { [name |-> "delete_reminder", style |-> "plain", prefix |-> "",
       raises |-> {HttpException(404, <<"Reminder not found">>)}],
      [name |-> "send_anonymous_message", style |-> "plain", prefix |-> "",
       raises |-> {}],
      [name |-> "upload_file", style |-> "wraps", prefix |-> "File upload failed: ",
       raises |-> {HttpException(400, <<"No file was uploaded">>),
                   HttpException(500, <<"Failed to create upload directory: ",
                                        "Permission denied">>)}],
      [name |-> "send_anonymous_voice_message", style |-> "wraps",
       prefix |-> "Failed to process voice message: ",
       raises |-> {HttpException(400, <<"File must be an audio file">>)}] }

\* What the body of an endpoint handler may end with, besides the
\* HTTPExceptions it raises itself
RaisedInBody ==
    { NoException,
      OtherException("OperationalError", "database is locked"),
      OtherException("JobLookupError", "No job by the id"),
      OtherException("OSError", "No space left on device") }

\* The exception that leaves the endpoint handler
Escapes(endpoint, exc) ==
    IF exc.type \in {"none", "HTTPException"} \/ endpoint.style = "plain" THEN exc
    ELSE HttpException(500, <<endpoint.prefix>> \o exc.detail)

\* The framework's answer to an exception no handler is registered for
default_server_error(exc) == [status |-> 500, detail |-> <<"Internal Server Error">>]

\* main.py lines 60-66
global_exception_handler(exc) == [status |-> 500, detail |-> GenericDetail]

\* The framework's handler of HTTPException
http_exception_handler(exc) == [status |-> exc.status_code, detail |-> exc.detail]

NoHttp == [phase |-> "idle", endpoint |-> "none", exc |-> NoException, status |-> 0,
           detail |-> <<>>]

\* A request is routed to an endpoint handler, whose body returns or raises
EndpointRuns(endpoint, raised) ==
    /\ http.phase \in {"idle", "sent"}
    /\ n_http < MaxHttpRequests
    /\ raised \in RaisedInBody \cup endpoint.raises
    /\ n_http' = n_http + 1
    /\ LET exc == Escapes(endpoint, raised)
       IN  http' = IF exc.type = "none"
                   THEN [phase |-> "sent", endpoint |-> endpoint.name, exc |-> exc,
                         status |-> 200, detail |-> <<>>]
                   ELSE [phase |-> "raised", endpoint |-> endpoint.name, exc |-> exc,
                         status |-> 0, detail |-> <<>>]
    /\ UNCHANGED <<chat_vars, support_vars, crud_vars, upload_vars, anon_vars,
                   sched_vars, auth_vars, analytics_vars>>

\* The exception reaches the handlers registered for exception classes: the
\* one of HTTPException answers, anything else passes on
ExceptionMiddleware ==
    /\ http.phase = "raised"
    /\ http' = IF http.exc.type = "HTTPException"
               THEN [http EXCEPT !.phase = "sent",
                                 !.status = http_exception_handler(http.exc).status,
                                 !.detail = http_exception_handler(http.exc).detail]
               ELSE [http EXCEPT !.phase = "unhandled"]
    /\ UNCHANGED <<n_http, chat_vars, support_vars, crud_vars, upload_vars, anon_vars,
                   sched_vars, auth_vars, analytics_vars>>

\* The exception reaches the outermost middleware, which answers with the
\* handler registered for Exception
ServerErrorMiddleware ==
    /\ http.phase = "unhandled"
    /\ http' = [http EXCEPT !.phase = "sent",
                            !.status = global_exception_handler(http.exc).status,
                            !.detail = global_exception_handler(http.exc).detail]
    /\ UNCHANGED <<n_http, chat_vars, support_vars, crud_vars, upload_vars, anon_vars,
                   sched_vars, auth_vars, analytics_vars>>

(***************************************************************************)
(* Registration and login (routers/auth.py, services/auth_service.py).     *)
(* Usernames, emails and passwords are sequences of characters.  A row of  *)
(* the users table is [email, username, hashed_password, is_anonymous].    *)
(***************************************************************************)
USERNAME_MIN == 3       \* len(username) < 3
USERNAME_MAX == 50      \* len(username) > 50
PASSWORD_MIN == 6       \* len(user.password) < 6
TLD_MIN == 2            \* [a-zA-Z]{2,}

Digits == {"0", "1", "2", "3", "4", "5", "6", "7", "8", "9"}
AsciiLetters == DOMAIN UpperToLower \union DOMAIN LowerToUpper

AllIn(s, chars) == \A i \in 1..Len(s) : s[i] \in chars

\* re.match(r'^[a-zA-Z0-9._%+-]+@[a-zA-Z0-9.-]+\.[a-zA-Z]{2,}$', email)
is_valid_email(email) ==
    \E at \in 1..Len(email), dot \in 1..Len(email) :
        /\ email[at] = "@" /\ email[dot] = "."
        /\ at > 1 /\ dot > at + 1 /\ Len(email) - dot >= TLD_MIN
        /\ AllIn(SubSeq(email, 1, at - 1),
                 AsciiLetters \union Digits \union {".", "_", "%", "+", "-"})
        /\ AllIn(SubSeq(email, at + 1, dot - 1), AsciiLetters \union Digits \union {".", "-"})
        /\ AllIn(SubSeq(email, dot + 1, Len(email)), AsciiLetters)

\* len 3..50 and re.match(r'^[a-zA-Z0-9_]+$', username)
is_valid_username(username) ==
    /\ Len(username) >= USERNAME_MIN /\ Len(username) <= USERNAME_MAX
    /\ AllIn(username, AsciiLetters \union Digits \union {"_"})

\* f"{user.username}@anonymous.local"
AnonymousDomain ==
    <<"@", "a", "n", "o", "n", "y", "m", "o", "u", "s", ".", "l", "o", "c", "a", "l">>
AnonymousEmail(username) == username \o AnonymousDomain

\* The field email: EmailStr of UserBase is validated by the email-validator
\* package of the installation, which startup.py does not install or pin: a
\* release that knows the special-use domain names answers 422 for an address
\* under .local, in a request as in a response; another one accepts it.
EmailStrBuilds == {"rejects_special_use", "accepts_special_use"}

IsSpecialUse(email) ==
    /\ Len(email) >= 6
    /\ SubSeq(email, Len(email) - 5, Len(email)) = <<".", "l", "o", "c", "a", "l">>

EmailStr(build, email) == build = "accepts_special_use" \/ ~IsSpecialUse(email)

\* pwd_context.hash and pwd_context.verify: a hash verifies the password it
\* was made from; the empty hash of an anonymous user verifies nothing
NoHash == [scheme |-> "", password |-> <<>>]
get_password_hash(password) == [scheme |-> "bcrypt", password |-> password]
verify_password(plain_password, hashed_password) ==
    hashed_password.scheme = "bcrypt" /\ hashed_password.password = plain_password

\* create_access_token(data={"sub": user.username})
NoToken == [sub |-> <<>>]
create_access_token(username) == [sub |-> username]

\* The rows AuthService writes
RegularUser(email, username, password) ==
    [email |-> email, username |-> username,
     hashed_password |-> get_password_hash(password), is_anonymous |-> FALSE]
AnonymousUser(username) ==
    [email |-> AnonymousEmail(username), username |-> username,
     hashed_password |-> NoHash, is_anonymous |-> TRUE]

\* The outcomes of db.commit() for a row whose email is that of another row:
\* the users table (models/user.py) decides whether emails are unique
DuplicateCommits == {"stored", "IntegrityError"}

NoAuth == [op |-> "none", username |-> <<>>, email |-> <<>>, password |-> <<>>,
           status |-> 0, detail |-> "", token |-> NoToken,
           email_validator |-> "rejects_special_use"]

\* The answer to a request, on the installation the last one ran on
Answer(op, username, email, password, status, detail, token) ==
    [op |-> op, username |-> username, email |-> email, password |-> password,
     status |-> status, detail |-> detail, token |-> token,
     email_validator |-> auth.email_validator]

\* POST /register, lines 32-81
register(email, username, password) ==
    LET answer(status, detail) ==
            Answer("register", username, email, password, status, detail, NoToken)
    IN  /\ IF ~EmailStr(auth.email_validator, email)
           THEN /\ auth' = answer(422, "value is not a valid email address")
                /\ users' = users
           ELSE IF ~is_valid_email(email)
           THEN /\ auth' = answer(400, "Invalid email format")
                /\ users' = users
           ELSE IF ~is_valid_username(username)
           THEN /\ auth' = answer(400, "Username must be 3-50 characters")
                /\ users' = users
           ELSE IF Len(password) < PASSWORD_MIN
           THEN /\ auth' = answer(400, "Password must be at least 6 characters long")
                /\ users' = users
           ELSE IF \E u \in users : u.email = email
           THEN /\ auth' = answer(400, "Email already registered")
                /\ users' = users
           ELSE IF \E u \in users : u.username = username
           THEN /\ auth' = answer(400, "Username already taken")
                /\ users' = users
           ELSE /\ Cardinality(users) < MaxUsers
                /\ auth' = answer(200, "")
                /\ users' = users \union {RegularUser(email, username, password)}
        /\ UNCHANGED <<chat_vars, support_vars, crud_vars, upload_vars, anon_vars, http_vars,
                       sched_vars, analytics_vars>>

\* POST /register-anonymous, lines 83-110: the derived email is not looked up
register_anonymous(username, commit) ==
    LET answer(status, detail) ==
            Answer("register_anonymous", username, AnonymousEmail(username), <<>>,
                   status, detail, NoToken)
        duplicate == \E u \in users : u.email = AnonymousEmail(username)
    IN  /\ IF ~is_valid_username(username)
           THEN /\ auth' = answer(400, "Username must be 3-50 characters")
                /\ users' = users
           ELSE IF \E u \in users : u.username = username
           THEN /\ auth' = answer(400, "Username already taken")
                /\ users' = users
           ELSE IF duplicate /\ commit = "IntegrityError"
           THEN /\ auth' = answer(500, "Anonymous registration failed")
                /\ users' = users
           ELSE /\ Cardinality(users) < MaxUsers
                /\ users' = users \union {AnonymousUser(username)}
                   \* response_model=UserSchema validates the row's email
                /\ auth' = IF EmailStr(auth.email_validator, AnonymousEmail(username))
                           THEN answer(200, "")
                           ELSE answer(500, "Internal Server Error")
        /\ UNCHANGED <<chat_vars, support_vars, crud_vars, upload_vars, anon_vars, http_vars,
                       sched_vars, analytics_vars>>

\* The rows the query of authenticate_user matches, lines 92-94; first() is
\* any of them
UserLookup(rows, username_or_email) ==
    {u \in rows : u.username = username_or_email \/ u.email = username_or_email}

\* authenticate_user for the row first() returned, lines 96-102
Authenticates(user, password) ==
    ~user.is_anonymous /\ verify_password(password, user.hashed_password)

\* A lookup of login_anonymous without its filter on is_anonymous
AnyUserLookup(rows, username) == {u \in rows : u.username = username}

\* The query of login_anonymous, line 151
AnonymousUserLookup(rows, username) ==
    {u \in rows : u.username = username /\ u.is_anonymous}

\* POST /login, lines 112-139; first is the row first() returns
login(username, password, first) ==
    LET answer(status, detail, token) ==
            Answer("login", username, <<>>, password, status, detail, token)
        found == UserLookup(users, username)
    IN  /\ first \in found \/ (found = {} /\ first = AnonymousUser(<<>>))
        /\ auth' = IF username = <<>> \/ password = <<>>
                   THEN answer(400, "Username/email and password are required", NoToken)
                   ELSE IF found = {} \/ ~Authenticates(first, password)
                   THEN answer(401, "Incorrect username/email or password", NoToken)
                   ELSE answer(200, "", create_access_token(first.username))
        /\ UNCHANGED <<chat_vars, support_vars, crud_vars, upload_vars, anon_vars, http_vars,
                       sched_vars, analytics_vars, users>>

\* POST /login-anonymous, lines 141-167
login_anonymous(username, first) ==
    LET answer(status, detail, token) ==
            Answer("login_anonymous", username, <<>>, <<>>, status, detail, token)
        found == AnonymousUserLookup(users, username)
    IN  /\ first \in found \/ (found = {} /\ first = AnonymousUser(<<>>))
        /\ auth' = IF username = <<>>
                   THEN answer(400, "Username is required", NoToken)
                   ELSE IF found = {}
                   THEN answer(401, "Anonymous user not found", NoToken)
                   ELSE answer(200, "", create_access_token(first.username))
        /\ UNCHANGED <<chat_vars, support_vars, crud_vars, upload_vars, anon_vars, http_vars,
                       sched_vars, analytics_vars, users>>

(***************************************************************************)
(* MoodService.get_monthly_analytics (services/mood_service.py).  Time is  *)
(* counted in days from month_ago, the start of the window: a row's        *)
(* created_at is its offset from month_ago, and now is at WINDOW_DAYS.     *)
(***************************************************************************)
WINDOW_DAYS == 30       \* month_ago = datetime.now() - timedelta(days=30)
WEEKS == 4              \* for week in range(4)
WEEK_DAYS == 7          \* timedelta(days=week*7), timedelta(days=7)

\* created_at of the user's rows: before the window, the first and last day
\* of each week, the days after the last week, and now
CreatedAtDays == {-1, 0, 6, 7, 13, 14, 20, 21, 27, 28, 29, WINDOW_DAYS}

MoodRows == [created_at : CreatedAtDays, mood_value : {3, 8}]

RECURSIVE SumOfMoods(_)
SumOfMoods(rows) ==
    IF rows = <<>> THEN 0 ELSE Head(rows).mood_value + SumOfMoods(Tail(rows))

\* A python list comprehension with a condition on created_at
EntriesBetween(entries, from, to) ==
    SelectSeq(entries, LAMBDA e : from <= e.created_at /\ e.created_at < to)

\* sum(...) / len(...): the quotient as the pair of its terms
Average(rows) == <<SumOfMoods(rows), Len(rows)>>

\* The weekly bucket of one week, lines 93-107 (an empty bucket is left out)
WeekBucket(entries, week) ==
    LET week_start == week * WEEK_DAYS
        week_end == week_start + WEEK_DAYS
        week_entries == EntriesBetween(entries, week_start, week_end)
    IN  IF week_entries = <<>> THEN <<>>
        ELSE << [week |-> week + 1, average |-> Average(week_entries),
                 entries_count |-> Len(week_entries)] >>

\* for week in range(4): ..., lines 92-107
RECURSIVE WeeklyAverages(_, _)
WeeklyAverages(entries, week) ==
    IF week >= WEEKS THEN <<>>
    ELSE WeekBucket(entries, week) \o WeeklyAverages(entries, week + 1)

\* The query of lines 81-84 on the user's rows
MonthEntries(rows) == SelectSeq(rows, LAMBDA e : e.created_at >= 0)

\* get_monthly_analytics, lines 77-116 (best_day and challenging_day, rows of
\* the table, are left out of the result)
GetMonthlyAnalytics(rows) ==
    LET entries == MonthEntries(rows)
    IN  IF entries = <<>>
        THEN [average |-> <<0, 1>>, entries_count |-> 0, weekly_averages |-> <<>>]
        ELSE [average |-> Average(entries), entries_count |-> Len(entries),
              weekly_averages |-> WeeklyAverages(entries, 0)]

NoAnalytics == [called |-> FALSE, rows |-> <<>>,
                result |-> [average |-> <<0, 1>>, entries_count |-> 0,
                            weekly_averages |-> <<>>]]

\* GET /analytics/monthly for a user whose rows are rows
get_monthly_analytics(rows) ==
    /\ analytics' = [called |-> TRUE, rows |-> rows, result |-> GetMonthlyAnalytics(rows)]
    /\ UNCHANGED <<chat_vars, support_vars, crud_vars, upload_vars, anon_vars, http_vars,
                   sched_vars, auth_vars>>

(***************************************************************************)
(* The specifications.                                                     *)
(***************************************************************************)
vars == <<chat_vars, support_vars, crud_vars, upload_vars, anon_vars, http_vars,
          sched_vars, auth_vars, analytics_vars>>

InitChatVars ==
    /\ conversation_history = << >>
    /\ last_call = NoCall
    /\ n_calls = 0
    /\ n_failures = 0

InitSupportVars ==
    /\ active_connections = << >>
    /\ ws = [c \in Conns |-> NewSocket]
    /\ support_messages = <<>>
    /\ inbox = [c \in Conns |-> <<>>]

InitCrudVars ==
    /\ journal_entries = {}
    /\ mood_entries = {}
    /\ reminders = {}
    /\ chat_messages = {}
    /\ last_id = [t \in Tables |-> 0]
    /\ scheduler_jobs = {}
    /\ active_reminders = << >>
    /\ response = NoResponse
    /\ n_created = [t \in Tables |-> 0]

InitSchedVars == running_jobs = {}

InitAuthVars ==
    /\ users = {}
    /\ auth = NoAuth

InitAnalyticsVars == analytics = NoAnalytics

InitUploadVars ==
    /\ uploads = {}
    /\ n_uploads = 0

InitHttpVars ==
    /\ http = NoHttp
    /\ n_http = 0

InitAnonVars ==
    /\ anonymous_sessions = << >>
    /\ requests = [slot \in 1..MaxInFlight |-> NoRequest]
    /\ serial = [history |-> << >>, sessions |-> << >>]
    /\ n_anon = 0

\* The chat service alone: any sequence of process_message calls
ProcessMessageCall(message, user_id, outcome) ==
    /\ process_message(message, user_id, outcome)
    /\ UNCHANGED <<support_vars, crud_vars, upload_vars, anon_vars, http_vars, sched_vars,
                   auth_vars, analytics_vars>>

InitChat ==
    /\ InitUploadVars
    /\ InitAnonVars
    /\ InitHttpVars
    /\ InitSchedVars
    /\ InitAuthVars
    /\ InitAnalyticsVars
    /\ client \in BOOLEAN
    /\ InitChatVars
    /\ InitSupportVars
    /\ InitCrudVars

NextChat ==
    \E message \in ChatMessages, user_id \in Ids,
       outcome \in ApiOutcomes \cup {"no_client"} :
        ProcessMessageCall(message, user_id, outcome)

SpecChat == InitChat /\ [][NextChat]_vars

\* The chat service without an API client, on messages with keywords
InitFallback ==
    /\ client = FALSE
    /\ InitChatVars
    /\ InitSupportVars
    /\ InitCrudVars
    /\ InitUploadVars
    /\ InitAnonVars
    /\ InitHttpVars
    /\ InitSchedVars
    /\ InitAuthVars
    /\ InitAnalyticsVars

FallbackCall(message, user_id) ==
    /\ n_calls < MaxFallbackCalls
    /\ ProcessMessageCall(message, user_id, "no_client")

NextFallback ==
    \E message \in FallbackMessages, user_id \in Ids : FallbackCall(message, user_id)

SpecFallback == InitFallback /\ [][NextFallback]_vars

\* The peer-support rooms alone
InitSupport ==
    /\ InitUploadVars
    /\ InitAnonVars
    /\ InitHttpVars
    /\ InitSchedVars
    /\ InitAuthVars
    /\ InitAnalyticsVars
    /\ client = FALSE
    /\ InitChatVars
    /\ InitSupportVars
    /\ InitCrudVars

NextSupport ==
    \/ \E c \in Conns, room_id \in Rooms, user_id \in UserIds :
           Connect(c, room_id, user_id)
    \/ \E c \in Conns : ClientGoesAway(c)
    \/ \E c \in Conns : ReceiveDisconnect(c)
    \/ \E c \in Conns, frame \in Frames : ReceiveBadFrame(c, frame)
    \/ \E c \in Conns, text \in Texts, outcome \in BroadcastOutcomes :
           ReceiveMessage(c, text, outcome)
    \/ \E c \in Conns, outcome \in BroadcastOutcomes : BroadcastStep(c, outcome)

SpecSupport == InitSupport /\ [][NextSupport]_vars

\* The REST handlers of the authenticated users
JournalEntryCreates ==
    [title : Titles, content : Contents, is_voice_entry : BOOLEAN]
MoodEntryCreates == [mood_value : MoodValues, mood_emoji : {"emoji"}, notes : {"notes"}]
ReminderCreates ==
    [title : Titles, message : {"message"}, scheduled_time : ScheduledTimes,
     is_recurring : BOOLEAN, recurrence_pattern : RecurrencePatterns]

InitCrud ==
    /\ InitUploadVars
    /\ InitAnonVars
    /\ InitHttpVars
    /\ InitSchedVars
    /\ InitAuthVars
    /\ InitAnalyticsVars
    /\ client = TRUE
    /\ InitChatVars
    /\ InitSupportVars
    /\ InitCrudVars

NextCrud ==
    \/ \E user \in Users, entry \in JournalEntryCreates :
           create_journal_entry(user, entry)
    \/ \E user \in Users, title \in Titles, is_audio \in BOOLEAN :
           create_voice_journal_entry(user, title, is_audio)
    \/ \E user \in Users, page \in Pages :
           get_journal_entries(user, page[1], page[2])
    \/ \E user \in Users, entry_id \in EntryIds : get_journal_entry(user, entry_id)
    \/ \E user \in Users, entry_id \in EntryIds : delete_journal_entry(user, entry_id)
    \/ \E user \in Users, mood_entry \in MoodEntryCreates :
           create_mood_entry(user, mood_entry)
    \/ \E user \in Users, page \in Pages :
           get_mood_entries(user, page[1], page[2])
    \/ \E user \in Users, args \in ReminderCreates : create_reminder(user, args)
    \/ \E user \in Users : list_reminders(user)
    \/ \E user \in Users, reminder_id \in EntryIds : delete_reminder(user, reminder_id)
    \/ \E job \in scheduler_jobs : job_is_due(job)
    \/ \E user \in Users, message \in ChatMessages : send_message(user, message, "ok")
    \/ \E user \in Users, page \in Pages :
           get_chat_history(user, page[1], page[2])

SpecCrud == InitCrud /\ [][NextCrud]_vars

\* The mood entries, with every float a request body may carry
MoodFloats == MoodValues \cup {1, 10, NaN}

NextMood ==
    \/ \E user \in Users, mood_value \in MoodFloats :
           create_mood_entry(user, [mood_value |-> mood_value, mood_emoji |-> "emoji",
                                    notes |-> "notes"])
    \/ \E user \in Users, page \in Pages :
           get_mood_entries(user, page[1], page[2])

SpecMood == InitCrud /\ [][NextMood]_vars

\* Registration and login, on either installation of the email validator
InitAuth ==
    /\ client = FALSE
    /\ InitChatVars
    /\ InitSupportVars
    /\ InitCrudVars
    /\ InitUploadVars
    /\ InitAnonVars
    /\ InitHttpVars
    /\ InitSchedVars
    /\ InitAnalyticsVars
    /\ users = {}
    /\ auth \in {[NoAuth EXCEPT !.email_validator = build] : build \in EmailStrBuilds}

Amy == <<"a", "m", "y">>
Bob == <<"b", "o", "b">>
Secret == <<"s", "e", "c", "r", "e", "t">>

Usernames == {Amy, Bob, <<"a", "b">>}
Emails == {<<"b", "@", "x", ".", "i", "o">>, AnonymousEmail(Amy), <<"a", "@", "b", ".", "c">>}
Passwords == {Secret, <<"s", "h", "o", "r", "t">>}
LoginNames == {Amy, Bob, <<>>} \union Emails
LoginPasswords == {Secret, <<"S", "e", "c", "r", "e", "t">>, <<>>}

NextAuth ==
    \/ \E email \in Emails, username \in Usernames, password \in Passwords :
           register(email, username, password)
    \/ \E username \in Usernames, commit \in DuplicateCommits :
           register_anonymous(username, commit)
    \/ \E username \in LoginNames, password \in LoginPasswords :
           \E first \in users \union {AnonymousUser(<<>>)} :
               login(username, password, first)
    \/ \E username \in LoginNames :
           \E first \in users \union {AnonymousUser(<<>>)} :
               login_anonymous(username, first)

SpecAuth == InitAuth /\ [][NextAuth]_vars

\* The monthly analytics on every table of at most MaxMoodRows rows
RowLists == UNION {[1..n -> MoodRows] : n \in 0..MaxMoodRows}

NextAnalytics == \E rows \in RowLists : get_monthly_analytics(rows)

SpecAnalytics == InitCrud /\ [][NextAnalytics]_vars

\* The reminders with the scheduler's executor: a job that is due is submitted
\* and _send_reminder runs later, in a thread of its own
NextReminders ==
    \/ \E user \in Users, args \in ReminderCreates : create_reminder(user, args)
    \/ \E user \in Users : list_reminders(user)
    \/ \E user \in Users, reminder_id \in EntryIds : delete_reminder(user, reminder_id)
    \/ \E job \in scheduler_jobs : job_is_submitted(job)
    \/ \E run \in running_jobs : send_reminder_runs(run)

SpecReminders == InitCrud /\ [][NextReminders]_vars

\* The upload handlers of the authenticated users
InitUpload ==
    /\ client = FALSE
    /\ InitChatVars
    /\ InitSupportVars
    /\ InitCrudVars
    /\ InitUploadVars
    /\ InitAnonVars
    /\ InitHttpVars
    /\ InitSchedVars
    /\ InitAuthVars
    /\ InitAnalyticsVars

NextUpload ==
    \/ \E user \in Users, file_type \in FileTypes, filename \in FileNames,
          size \in FileSizes : upload_file(user, file_type, filename, size)
    \/ \E user \in Users : list_user_files(user)
    \/ \E user \in Users, filename \in StoredNames : delete_file(user, filename)

SpecUpload == InitUpload /\ [][NextUpload]_vars

\* The anonymous chat handlers, several alive at once.  The event loop runs a
\* handler that can run, so a run does not stop while one can.
InitAnon ==
    /\ client = TRUE
    /\ InitChatVars
    /\ InitSupportVars
    /\ InitCrudVars
    /\ InitUploadVars
    /\ InitAnonVars
    /\ InitHttpVars
    /\ InitSchedVars
    /\ InitAuthVars
    /\ InitAnalyticsVars

RequestArrives(slot, kind, session_id, outcome) ==
    /\ n_anon < MaxAnonRequests
    /\ Arrive(slot, kind, session_id, outcome)

AnonFrameArrives(slot, message, outcome) ==
    /\ n_anon < MaxAnonRequests
    /\ FrameArrives(slot, message, outcome)

NextAnon ==
    \/ \E slot \in 1..MaxInFlight, kind \in {"text", "voice", "not_audio", "ws"},
          session_id \in KnownSessions \cup {NoSession}, outcome \in {"ok", "APIError"} :
           RequestArrives(slot, kind, session_id, outcome)
    \/ \E slot \in 1..MaxInFlight : HandlerRuns(slot)
    \/ \E slot \in 1..MaxInFlight, message \in ChatMessages,
          outcome \in {"ok", "APIError"} : AnonFrameArrives(slot, message, outcome)
    \/ \E slot \in 1..MaxInFlight : SocketCloses(slot)

SpecAnon == InitAnon /\ [][NextAnon]_vars /\ WF_vars(NextAnon)

\* HTTP requests through the application's exception handlers
InitHttp ==
    /\ client = FALSE
    /\ InitChatVars
    /\ InitSupportVars
    /\ InitCrudVars
    /\ InitUploadVars
    /\ InitAnonVars
    /\ InitHttpVars
    /\ InitSchedVars
    /\ InitAuthVars
    /\ InitAnalyticsVars

NextHttp ==
    \/ \E endpoint \in Endpoints :
           \E raised \in RaisedInBody \cup endpoint.raises : EndpointRuns(endpoint, raised)
    \/ ExceptionMiddleware
    \/ ServerErrorMiddleware

SpecHttp == InitHttp /\ [][NextHttp]_vars

\* The anonymous chat handlers one at a time, for many messages of one
\* session, the completion API answering every call
SessionRequestArrives(kind, session_id) ==
    /\ n_anon < MaxSessionMessages
    /\ Arrive(1, kind, session_id, "ok")

SessionFrameArrives(message) ==
    /\ n_anon < MaxSessionMessages
    /\ FrameArrives(1, message, "ok")

NextSessions ==
    \/ \E kind \in {"text", "voice", "not_audio", "ws"}, session_id \in KnownSessions :
           SessionRequestArrives(kind, session_id)
    \/ HandlerRuns(1)
    \/ \E message \in ChatMessages : SessionFrameArrives(message)
    \/ SocketCloses(1)

SpecSessions == InitAnon /\ [][NextSessions]_vars

(***************************************************************************)
(* Claims about the chat service, checked under SpecChat.                  *)
(***************************************************************************)

\* C1: the list handed to the completion API never has more than 21 entries
\* (the system prompt plus 10 exchanges) and no stored history ever has more
\* than 22 entries, for every identifier and after any sequence of calls.
C1_HistoryBounded ==
    /\ Len(last_call.api_messages) <= 21
    /\ \A id \in DOMAIN conversation_history : Len(conversation_history[id]) <= 22

\* C1 witness: with an API that never failed, a call handed the API exactly 21
\* entries and left a stored history of exactly 22.
C1_Witness ==
    /\ client /\ n_failures = 0
    /\ Len(last_call.api_messages) = 21
    /\ \E id \in DOMAIN conversation_history : Len(conversation_history[id]) = 22

\* C2: every stored history starts with the system prompt and holds no other
\* entry of role system.
C2_SystemPromptFirst ==
    \A id \in DOMAIN conversation_history :
        LET h == conversation_history[id] IN
        /\ Len(h) >= 1
        /\ h[1] = [role |-> "system", content |-> "system_prompt"]
        /\ \A i \in 2..Len(h) : h[i].role # "system"

\* C2 witness: a history that has been truncated (the call handed the API the
\* 17 entries a truncation leaves) in a run where an API call has failed.
C2_Witness ==
    /\ n_failures > 0
    /\ last_call.user_id \in DOMAIN conversation_history
    /\ Len(last_call.api_messages) = 17
    /\ \E i \in 2..Len(last_call.api_messages) :
           /\ last_call.api_messages[i].role = "user"
           /\ last_call.api_messages[i - 1].role = "user"

\* C3: every process_message call returns (never raises): the stripped API
\* completion when the API call succeeded, one of the canned replies when no
\* client is configured or the API call raised.
C3_AlwaysReplies ==
    last_call.kind # "none" =>
        /\ last_call.kind = "return"
        /\ last_call.outcome = "ok" => last_call.text = <<"o", "k">>
        /\ last_call.outcome # "ok" => last_call.text \in CannedReplies

\* C3 witness: a call whose API request raised an exception that is neither
\* an APIError nor a RateLimitError returned the canned reply of its message.
C3_Witness ==
    /\ last_call.outcome = "Exception"
    /\ last_call.kind = "return"
    /\ last_call.text = <<"sadness_reply">>

(***************************************************************************)
(* Claims about the peer-support rooms, checked under SpecSupport.         *)
(***************************************************************************)
HasFrame(box, timestamp) == \E i \in 1..Len(box) : box[i].timestamp = timestamp

\* C4 (as claimed): every socket in a room list has a running handler; a
\* socket whose handler has ended is in no room list.
C4_OnlyLiveSockets ==
    \A room_id \in DOMAIN active_connections :
        \A i \in 1..Len(active_connections[room_id]) :
            ws[active_connections[room_id][i]].pc \in Running

\* C5 (as claimed): when the broadcast of a message is over, every socket that
\* was in the sender's room list when the message arrived, the sender
\* included, has been sent it; and no socket is ever sent a message of
\* another room.
C5_NoCrossRoom ==
    \A c \in Conns : \A i \in 1..Len(inbox[c]) :
        \E k \in 1..Len(support_messages) :
            /\ support_messages[k].id = inbox[c][i].timestamp
            /\ support_messages[k].room_id = ws[c].room

C5_BroadcastOverStep ==
    \A c \in Conns :
        /\ (ws[c].pc = "broadcast" /\ ws'[c].pc # "broadcast") =>
               \A i \in 1..Len(ws[c].bc_list) :
                   HasFrame(inbox'[ws[c].bc_list[i]], ws[c].bc_msg.timestamp)
        /\ (/\ ws[c].pc = "receive" /\ ws'[c].pc \in Ended
            /\ Len(support_messages') > Len(support_messages)) =>
               \A i \in 1..Len(RoomList(active_connections, ws[c].room)) :
                   HasFrame(inbox'[active_connections[ws[c].room][i]],
                            Len(support_messages'))

C5_PushedToWholeRoom == []C5_NoCrossRoom /\ [][C5_BroadcastOverStep]_vars

\* C6: every frame a socket was sent by broadcast is a committed row of
\* support_messages with the socket's room, the sender's user and the same
\* text; committed rows are never removed or changed, whatever becomes of
\* their broadcast.
C6_FramesArePersisted ==
    \A c \in Conns : \A i \in 1..Len(inbox[c]) :
        \E k \in 1..Len(support_messages) :
            /\ support_messages[k].id = inbox[c][i].timestamp
            /\ support_messages[k].room_id = ws[c].room
            /\ Username(support_messages[k].user_id) = inbox[c][i].username
            /\ support_messages[k].message = inbox[c][i].message

C6_RowsStay ==
    /\ Len(support_messages') >= Len(support_messages)
    /\ \A k \in 1..Len(support_messages) : support_messages'[k] = support_messages[k]

C6_PersistedBeforePushed == []C6_FramesArePersisted /\ [][C6_RowsStay]_vars

\* C6 witness: a broadcast that failed part-way: a message was sent to one
\* socket of its room, no handler is broadcasting it any more, the sender's
\* handler crashed, and a socket of the room list has not been sent it.
C6_Witness ==
    \E m \in 1..Len(support_messages) :
        /\ \E c \in Conns : HasFrame(inbox[c], m)
        /\ \A c \in Conns : ws[c].bc_msg.timestamp # m
        /\ \E c \in Conns : ws[c].pc = "crashed" /\ HasFrame(inbox[c], m)
        /\ \E i \in 1..Len(RoomList(active_connections, support_messages[m].room_id)) :
               ~HasFrame(inbox[active_connections[support_messages[m].room_id][i]], m)

\* C7 (as claimed): every socket is sent the messages of its room in the order
\* in which the server persisted them.
C7_ArrivalOrder ==
    \A c \in Conns : \A i, j \in 1..Len(inbox[c]) :
        i < j => inbox[c][i].timestamp < inbox[c][j].timestamp

(***************************************************************************)
(* Claims about the REST handlers, checked under SpecCrud.                 *)
(***************************************************************************)
ListOps == {"get_journal_entries", "get_mood_entries", "list_reminders",
            "get_chat_history"}

\* The table a request reads or writes, in a given state of the tables
TableOf(op, journal, mood, rems, chat) ==
    IF op \in {"create_journal_entry", "create_voice_journal_entry",
               "get_journal_entries", "get_journal_entry", "delete_journal_entry"}
    THEN journal
    ELSE IF op \in {"create_mood_entry", "get_mood_entries"} THEN mood
    ELSE IF op \in {"create_reminder", "list_reminders", "delete_reminder"} THEN rems
    ELSE chat

TableNow(op) == TableOf(op, journal_entries, mood_entries, reminders, chat_messages)
TableNext(op) == TableOf(op, journal_entries', mood_entries', reminders', chat_messages')

\* The number of rows a list of n rows shows through its skip/limit window
\* (list_reminders has no window)
WindowSize(op, n, skip, limit) ==
    IF op = "list_reminders" THEN n ELSE Min(limit, Max(0, n - skip))

\* C8: the journal list, the mood list, the reminder list and the chat
\* history returned to user U hold only rows of U, each at most once, and as
\* many of U's rows as the skip/limit window has room for (all of them when
\* the window is wide enough), whatever other users have created or deleted.
C8_ListsScoped ==
    response.op \in ListOps =>
        LET mine == {r \in TableNow(response.op) : r.user_id = response.user}
            body == response.body
        IN  /\ response.status = 200
            /\ \A i \in 1..Len(body) : \E r \in mine : r.id = body[i].id
            /\ \A i, j \in 1..Len(body) : i # j => body[i].id # body[j].id
            /\ Len(body) = WindowSize(response.op, Cardinality(mine), response.skip,
                                      response.limit)

\* C8 witness: a user is returned a non-empty journal list while the journal
\* table also holds a row of another user.
C8_Witness ==
    /\ response.op = "get_journal_entries"
    /\ Len(response.body) > 0
    /\ \E r \in journal_entries : r.user_id # response.user

\* C9: a get or delete of a journal entry, or a delete of a reminder, that
\* names an id which no row of the caller has (no such row, or a row of
\* another user) is answered 404 and leaves every table, every scheduled job
\* and the reminder service's job map as they were; a delete that names a row
\* of the caller removes it, so that the same delete again is answered 404.
C9_Step ==
    (/\ response' # response
     /\ response'.op \in {"get_journal_entry", "delete_journal_entry",
                          "delete_reminder"}) =>
        LET op == response'.op
            owned == {r \in TableNow(op) :
                         r.id = response'.id /\ r.user_id = response'.user}
        IN  /\ owned = {} =>
                /\ response'.status = 404
                /\ UNCHANGED <<journal_entries, mood_entries, reminders,
                               chat_messages, scheduler_jobs, active_reminders>>
            /\ (owned # {} /\ op # "get_journal_entry") =>
                /\ response'.status = 200
                /\ TableNext(op) = TableNow(op) \ owned
            /\ (/\ op # "get_journal_entry"
                /\ response.op = op /\ response.user = response'.user
                /\ response.id = response'.id /\ response.status = 200) =>
                   response'.status = 404

C9_NotFoundChangesNothing == [][C9_Step]_vars

\* C9 witness: a user asked to delete a reminder of another user, was
\* answered 404, and the reminder and its scheduled job are still there.
C9_Witness ==
    /\ response.op = "delete_reminder"
    /\ response.status = 404
    /\ \E r \in reminders :
           /\ r.id = response.id
           /\ r.user_id # response.user
           /\ JobId(r) \in scheduler_jobs

CreateOps == {"create_journal_entry", "create_mood_entry", "create_reminder"}

\* The fields a create request submits are the fields of the row
SubmittedFields(op, row, submitted) ==
    IF op = "create_journal_entry"
    THEN row.title = submitted.title /\ row.content = submitted.content
    ELSE IF op = "create_mood_entry"
    THEN /\ row.mood_value = submitted.mood_value
         /\ row.mood_emoji = submitted.mood_emoji
         /\ row.notes = submitted.notes
    ELSE /\ row.title = submitted.title
         /\ row.message = submitted.message
         /\ row.scheduled_time = submitted.scheduled_time
         /\ row.is_recurring = submitted.is_recurring
         /\ row.recurrence_pattern = submitted.recurrence_pattern

\* The entity a create returns is the row (create_reminder returns some of
\* the row's columns)
ReturnedAsPersisted(op, row, entity) ==
    IF op = "create_reminder"
    THEN \A f \in DOMAIN entity : entity[f] = row[f]
    ELSE entity = row

\* A successful create adds one row to its table and nothing else: the row has
\* an id no row of the table has, the caller's user_id, and the entity
\* returned; voice_flag says which is_voice_entry a text journal entry is
\* said to be stored with, the submitted one or false
CreateStep(voice_flag) ==
    (/\ response' # response
     /\ response'.op \in CreateOps
     /\ response'.status = 200) =>
        LET op == response'.op
            entity == response'.body[1]
        IN  /\ \A r \in TableNow(op) : r.id # entity.id
            /\ \E row \in TableNext(op) :
                   /\ TableNext(op) = TableNow(op) \cup {row}
                   /\ row.id = entity.id
                   /\ row.user_id = response'.user
                   /\ ReturnedAsPersisted(op, row, entity)
                   /\ SubmittedFields(op, row, response'.submitted)
                   /\ op = "create_journal_entry" =>
                          row.is_voice_entry =
                              IF voice_flag = "submitted"
                              THEN response'.submitted.is_voice_entry
                              ELSE FALSE

\* A row stays in its table, with the id, the user and the fields it was
\* created with, until its owner's delete of that id succeeds
RowsStayUntilDeleted ==
    \A op \in {"get_journal_entries", "get_mood_entries", "list_reminders"} :
        \A r \in TableNow(op) \ TableNext(op) :
            \/ \E q \in TableNext(op) :
                   /\ q.id = r.id
                   /\ \A f \in DOMAIN r \ {"is_sent"} : q[f] = r[f]
            \/ /\ response'.op \in {"delete_journal_entry", "delete_reminder"}
               /\ TableNow(response'.op) = TableNow(op)
               /\ response'.status = 200
               /\ response'.user = r.user_id
               /\ response'.id = r.id

\* What a list or a get answers about the rows of the caller: a list from
\* skip 0 whose limit is not below the number of the caller's rows shows each
\* of them (a reminder's is_sent as it was when the list was made), and a get
\* of one of them returns it
RowsAreReturned ==
    LET mine == {r \in TableNow(response.op) : r.user_id = response.user}
    IN  /\ (/\ response.op \in {"get_journal_entries", "get_mood_entries",
                                "list_reminders"}
            /\ response.skip = 0
            /\ response.op # "list_reminders" => Cardinality(mine) <= response.limit) =>
               \A r \in mine : \E i \in 1..Len(response.body) :
                   /\ response.body[i].id = r.id
                   /\ \A f \in DOMAIN response.body[i] \ {"is_sent"} :
                          response.body[i][f] = r[f]
        /\ response.op = "get_journal_entry" =>
               \A r \in mine : r.id = response.id =>
                   response.status = 200 /\ response.body = <<r>>

\* C10 (as claimed): a successful create of a journal entry, a mood entry or
\* a reminder returns the row it persisted, with a fresh id, the caller's
\* user_id and every submitted field as submitted; the row stays until it is
\* deleted and the caller's list and get return it.
C10_AsClaimed ==
    /\ [][CreateStep("submitted") /\ RowsStayUntilDeleted]_vars
    /\ []RowsAreReturned

\* C10 (amended): a successful create of a journal entry, a mood entry or a
\* reminder returns the row it persisted, with an id no row of the table has,
\* the caller's user_id and the submitted title, content, mood and reminder
\* fields, while a text journal entry is stored with is_voice_entry false
\* whatever the request says; the row stays, unchanged but for a reminder's
\* is_sent, until its owner deletes it, and until then the owner's get returns
\* it and the owner's list from skip 0 shows it whenever the limit is not
\* below the number of the owner's rows.
C10_CreateReturnsPersisted ==
    /\ [][CreateStep("false") /\ RowsStayUntilDeleted]_vars
    /\ []RowsAreReturned

\* C10 witness: a text journal entry was submitted with is_voice_entry true,
\* and the entry returned and stored has is_voice_entry false.
C10_Witness ==
    /\ response.op = "create_journal_entry"
    /\ response.status = 200
    /\ response.submitted.is_voice_entry
    /\ \E r \in journal_entries :
           r = response.body[1] /\ r.user_id = response.user /\ ~r.is_voice_entry

(***************************************************************************)
(* Claims about the upload handlers, checked under SpecUpload.             *)
(***************************************************************************)
\* C11 (as claimed): list_user_files returns to user U only files that U
\* uploaded, and a delete_file by U removes a file only if U uploaded it.
C11_ListOnlyOwnFiles ==
    response.op = "list_user_files" =>
        \A e \in response.body :
            \A f \in uploads : f.filename = e.filename => f.uploaded_by = response.user

C11_DeleteOnlyOwnFiles ==
    response'.op = "delete_file" =>
        \A f \in uploads \ uploads' : f.uploaded_by = response'.user

C11_UploadsScoped == []C11_ListOnlyOwnFiles /\ [][C11_DeleteOnlyOwnFiles]_vars


(***************************************************************************)
(* C12: two concurrent chat requests for the same session identifier can   *)
(* interleave their updates of conversation_history and                    *)
(* anonymous_sessions and reach a state no serial execution produces.      *)
(***************************************************************************)
NonSerial == SharedMaps # serial

\* C12 as stated: the handlers' updates interleave and the two maps come to
\* differ from what the handlers produce when run one after the other
C12_AsClaimed == <>NonSerial

\* C12, as the code has it: however the requests overlap, the two maps are
\* always those that the handlers produce when each runs whole, one after the
\* other in the order in which they stored their exchange: a handler makes
\* all its updates in one uninterrupted run on the event loop
C12_UpdatesAreSerial == ~NonSerial

\* A voice request is suspended in its file write, between its start and its
\* updates, and a WebSocket handler of the same session has meanwhile
\* processed a frame and stored the exchange
C12_Witness ==
    \E a, b \in InFlight(requests) :
        /\ requests[a].kind = "voice"
        /\ Program("voice")[requests[a].pc] = "file_io"
        /\ requests[b].kind = "ws"
        /\ Program("ws")[requests[b].pc] = "send"
        /\ requests[b].session_id = requests[a].session_id
        /\ Len(anonymous_sessions[requests[b].session_id]) >= 1
        /\ Len(conversation_history[AnonymousUserId(requests[b].session_id)]) >= 3

(***************************************************************************)
(* C16: every anonymous session holds at most 50 messages, whichever       *)
(* entry point appended them, and the retained messages are the most       *)
(* recent ones in order.                                                   *)
(***************************************************************************)
\* C16: no session's list is longer than 50
C16_SessionsCapped ==
    \A sid \in DOMAIN anonymous_sessions : Len(anonymous_sessions[sid]) <= SESSION_LIMIT

Priority ==
    << [words |-> crisis_keywords, reply |-> <<"crisis_reply">>],
       [words |-> sadness_words, reply |-> <<"sadness_reply">>],
       [words |-> anger_words, reply |-> <<"anger_reply">>],
       [words |-> loneliness_words, reply |-> <<"loneliness_reply">>],
       [words |-> guilt_words, reply |-> <<"guilt_reply">>],
       [words |-> help_words, reply |-> <<"help_reply">>],
       [words |-> missing_words, reply |-> <<"missing_reply">> ] >>

\* The keyword occurs in the message, letter case aside
OccursIgnoringCase(message, kw) ==
    \E i \in 1..(Len(message) - Len(kw) + 1) :
        \A j \in 1..Len(kw) : LowerChar(message[i + j - 1]) = kw[j]

Matched(message) ==
    {i \in 1..Len(Priority) : \E kw \in Priority[i].words : OccursIgnoringCase(message, kw)}

\* C14: the reply of a fallback is that of the first list in the priority
\* order one of whose keywords occurs in the message, and the general reply
\* when there is none
C14_FallbackPriority ==
    last_call.outcome \notin {"none", "ok"} =>
        LET matched == Matched(last_call.message)
        IN  last_call.text =
                IF matched = {} THEN <<"general_reply">>
                ELSE Priority[CHOOSE i \in matched : \A k \in matched : i <= k].reply

\* A message in upper case with a sadness and an anger keyword got the
\* sadness reply
C14_Witness ==
    /\ last_call.outcome = "no_client"
    /\ last_call.message = <<"S", "A", "D", " ", "m", "a", "d", "e">>
    /\ last_call.text = <<"sadness_reply">>

(***************************************************************************)
(* C18: with no API client, process_message leaves conversation_history    *)
(* unchanged for every identifier and its reply depends only on the        *)
(* message text.                                                           *)
(***************************************************************************)
\* C18: a call without a client changes no history, and its reply is the one
\* the same message gets for any other identifier
C18_Step ==
    ~client /\ n_calls' = n_calls + 1 =>
        /\ conversation_history' = conversation_history
        /\ \A user_id \in Ids :
               last_call'.text =
                   ProcessMessageResult(conversation_history, FALSE, last_call'.message,
                                        user_id, "no_client").text
        /\ \A m \in {Lower(last_call'.message), Upper(last_call'.message)} :
               FallbackResponse(m, "no_api_key") = last_call'.text

C18_NoClientLeavesHistory == [][C18_Step]_vars

\* Two calls were made without a client, the second for user_1 with a message
\* that has a keyword, and there is no history
C18_Witness ==
    /\ ~client
    /\ n_calls = 2
    /\ last_call.user_id = "user_1"
    /\ last_call.text = <<"help_reply">>
    /\ conversation_history = << >>

(***************************************************************************)
(* C15: whenever the truncation fires, the history becomes the system      *)
(* prompt followed by the last 8 exchanges, each a user turn followed by   *)
(* the assistant's reply: the entry right after the system prompt is a     *)
(* user turn.                                                              *)
(***************************************************************************)
TruncationFires(hist, user_id) == Len(HistoryOf(hist, user_id)) + 1 > HistoryLimit

\* C15: the list a call leaves after its truncation
C15_Step ==
    /\ client
    /\ n_calls' = n_calls + 1
    /\ TruncationFires(conversation_history, last_call'.user_id)
    => LET h == last_call'.api_messages
       IN  /\ h[1] = SystemEntry
           /\ Len(h) = KeepLast + 1
           /\ h[2].role = "user"
           /\ \A k \in 1..(KeepLast \div 2) :
                  2 * k + 1 < Len(h) => h[2 * k].role = "user" /\ h[2 * k + 1].role = "assistant"

C15_TruncationKeepsExchanges == [][C15_Step]_vars

(***************************************************************************)
(* C17: when the completion API call fails, the history is left as it was  *)
(* before the call (the user turn is not kept), so a history never holds   *)
(* two consecutive user turns.                                             *)
(***************************************************************************)
\* C17: a call whose API call raised leaves every history as it was
C17_FailedCallStep ==
    /\ client
    /\ n_calls' = n_calls + 1
    /\ last_call'.outcome \notin {"ok", "no_client"}
    => conversation_history' = conversation_history

\* C17: no history has a user turn right after a user turn
C17_NoConsecutiveUserTurns ==
    \A id \in DOMAIN conversation_history :
        \A i \in 1..(Len(conversation_history[id]) - 1) :
            ~ /\ conversation_history[id][i].role = "user"
              /\ conversation_history[id][i + 1].role = "user"

C17_FailedCallLeavesHistory ==
    [][C17_FailedCallStep]_vars /\ []C17_NoConsecutiveUserTurns

(***************************************************************************)
(* C19: a disconnect of one connection during a broadcast to the same room *)
(* does not make another connection that stays in the room miss the        *)
(* message: every connection in the room list from the start to the end    *)
(* of the broadcast receives it exactly once.                              *)
(***************************************************************************)
Copies(frames, frame) == Cardinality({i \in 1..Len(frames) : frames[i] = frame})

\* C19: when a broadcast comes to the end of the room list, every socket that
\* was in the list when the broadcast started and still is, and whose client
\* is there, has the frame once
C19_Step ==
    \A c \in Conns :
        ws[c].pc = "broadcast" /\ ws'[c].pc = "receive" =>
            \A d \in Conns :
                /\ InList(ws[c].bc_list, d)
                /\ InList(RoomList(active_connections', ws[c].room), d)
                /\ ws'[d].peer = "connected"
                => Copies(inbox'[d], ws[c].bc_msg) = 1

C19_StayersReceiveOnce == [][C19_Step]_vars

(***************************************************************************)
(* C20: after delete_reminder returns success for a reminder id,           *)
(* active_reminders has no entry for the id and the scheduler holds no     *)
(* job for it (so the reminder does not fire afterwards), whatever         *)
(* happened before the delete, a one-time reminder whose job already       *)
(* fired included.                                                         *)
(***************************************************************************)
\* C20: the service's state right after a successful delete_reminder
C20_DeleteStep ==
    /\ response'.op = "delete_reminder"
    /\ response'.status = 200
    /\ reminders' # reminders
    => /\ response'.id \notin DOMAIN active_reminders'
       /\ \A job \in scheduler_jobs' : job[1] # response'.id

C20_DeleteClearsReminder == [][C20_DeleteStep]_vars

(***************************************************************************)
(* C21: a one-time reminder's is_sent flag is false until its job fires,   *)
(* becomes true when it fires and never returns to false; a recurring      *)
(* reminder's flag stays false however often it fires; firing a job whose  *)
(* row has been deleted changes nothing.                                   *)
(***************************************************************************)
\* The row of reminders' that continues row r (same id, same creation)
SameReminder(r, q) == q.id = r.id /\ q.created_at = r.created_at

\* The step runs _send_reminder for a job that was added for row r
FiresFor(r) ==
    \E run \in running_jobs \ running_jobs' : run[1] = r.id /\ run[3] = r.created_at

\* C21: the is_sent flags over one step
C21_Step ==
    /\ \A r \in reminders' \ reminders :
           (\A q \in reminders : ~SameReminder(q, r)) => ~r.is_sent
    /\ \A r \in reminders : \A q \in reminders' :
           SameReminder(r, q) =>
               /\ r.is_sent => q.is_sent
               /\ r.is_recurring => ~q.is_sent
               /\ ~r.is_recurring /\ FiresFor(r) => q.is_sent
               /\ ~r.is_sent /\ q.is_sent => FiresFor(r)
    /\ \A run \in running_jobs \ running_jobs' :
           (\A r \in reminders : r.id # run[1]) => reminders' = reminders

C21_SentFlagFollowsJob == [][C21_Step]_vars

(***************************************************************************)
(* C24: every persisted mood entry has a mood_value between 1 and 10       *)
(* inclusive: create_mood_entry with a value below 1 or above 10 returns   *)
(* 400 and stores nothing, and no other operation changes a stored         *)
(* mood_value.                                                             *)
(***************************************************************************)
\* C24: the stored values are in the range
C24_MoodValuesInRange ==
    \A row \in mood_entries :
        ~FloatLt(row.mood_value, 1) /\ ~FloatGt(row.mood_value, 10) /\ row.mood_value # NaN

\* C24: a value out of the range is answered 400 and stores nothing, and
\* rows that are stored stay as they are
C24_Step ==
    /\ response'.op = "create_mood_entry" /\ n_created' = n_created
           /\ response' # response
       => response'.status = 400 /\ mood_entries' = mood_entries
    /\ mood_entries \subseteq mood_entries'

C24_MoodRange == []C24_MoodValuesInRange /\ [][C24_Step]_vars

(***************************************************************************)
(* C22: a token for a non-anonymous user is issued only by login after     *)
(* that user's password has been verified: login never issues a token for  *)
(* an anonymous user or on a wrong password (401), and login-anonymous     *)
(* issues a token only for a user with is_anonymous true and returns 401   *)
(* for the username of a regular user.                                     *)
(***************************************************************************)
TokenIssued == auth.token # NoToken

\* C22: who a token is issued for, by which endpoint, after which check
C22_TokensFollowVerification ==
    /\ TokenIssued => auth.status = 200 /\ auth.op \in {"login", "login_anonymous"}
    /\ TokenIssued /\ (\E u \in users : u.username = auth.token.sub /\ ~u.is_anonymous)
           => auth.op = "login"
    /\ TokenIssued /\ auth.op = "login"
           => \E u \in users :
                  /\ u.username = auth.token.sub /\ ~u.is_anonymous
                  /\ auth.username \in {u.username, u.email}
                  /\ u.hashed_password = get_password_hash(auth.password)
    /\ auth.op = "login" /\ auth.username # <<>> /\ auth.password # <<>>
           /\ (\A u \in users : auth.username \in {u.username, u.email}
                                    => u.is_anonymous
                                       \/ u.hashed_password # get_password_hash(auth.password))
           => auth.status = 401 /\ ~TokenIssued
    /\ TokenIssued /\ auth.op = "login_anonymous"
           => /\ auth.token.sub = auth.username
              /\ \E u \in users : u.username = auth.username /\ u.is_anonymous
              /\ \A u \in users : u.username = auth.username => u.is_anonymous
    /\ auth.op = "login_anonymous"
           /\ (\E u \in users : u.username = auth.username /\ ~u.is_anonymous)
           => auth.status = 401 /\ ~TokenIssued

\* A login of a regular user with its password, an anonymous user being there
C22_Witness ==
    /\ auth.op = "login" /\ TokenIssued
    /\ \E u \in users : u.is_anonymous
    /\ \E u \in users : ~u.is_anonymous /\ u.username = auth.token.sub

(***************************************************************************)
(* C23: after any sequence of register and register-anonymous calls, no    *)
(* two users share a username and no two users share an email: a request   *)
(* whose username or email (including the email username@anonymous.local   *)
(* that register-anonymous derives) equals that of an existing user is     *)
(* rejected with 400 and creates no user.                                  *)
(***************************************************************************)
C23_UniqueUsers ==
    \A u, v \in users : u # v => u.username # v.username /\ u.email # v.email

\* A request that fails validation of its body is answered 422 before the handler
C23_Step ==
    /\ auth' # auth /\ auth'.op \in {"register", "register_anonymous"}
    /\ \E u \in users : u.username = auth'.username \/ u.email = auth'.email
    => auth'.status \in {400, 422} /\ users' = users

RECURSIVE SumOfCounts(_)
SumOfCounts(buckets) ==
    IF buckets = <<>> THEN 0 ELSE Head(buckets).entries_count + SumOfCounts(Tail(buckets))

\* C25: the weekly counts add up to the overall count
C25_WeeklyCountsAddUp ==
    analytics.called =>
        SumOfCounts(analytics.result.weekly_averages) = analytics.result.entries_count

====
